---- MODULE Spec2Model ----
(***************************************************************************)
(* A model of the CoderSwap MCP server (src/src/index.ts and               *)
(* src/src/coderswap-client.ts): the start-up gate that loads the          *)
(* guardrail prompt, the guardrail scanner, the eight registered tools     *)
(* and the backend client they call.                                       *)
(*                                                                         *)
(* Values.  A JavaScript / JSON value is a tagged record: Str, Num, Bool,  *)
(* Null, Undefined, Arr (a sequence of values) and Obj (a sequence of      *)
(* <<key, value>> entries in insertion order).  A string is the sequence   *)
(* of its words, read as joined by single spaces; the empty string is      *)
(* <<>>.  Words are atoms: String.includes becomes "is a contiguous        *)
(* sub-sequence of", String.toLowerCase maps every word to its lower-case  *)
(* form.                                                                   *)
(***************************************************************************)
EXTENDS Integers, Sequences, FiniteSets, TLC

VARIABLES
    payload,        \* scanner harness: the value handed to containsGuardrailBypass
    scanResult,     \* scanner harness: [scanned, result], result meaningful once scanned
    phase,          \* the process: "boot", "promptLoaded", "keyChecked", "connected", "exited"
    exitCode,       \* -1 while running, else the code given to process.exit
    systemPrompt,   \* <<>> until loaded, then the rendered guardrail prompt (a sequence of sections)
    promptFile,     \* the file mcp_starter_prompt.yaml as found at start-up
    apiKey,         \* process.env.CODERSWAP_API_KEY
    calls           \* one record per tool invocation slot

vars == <<payload, scanResult, phase, exitCode, systemPrompt, promptFile, apiKey, calls>>

scanVars == <<payload, scanResult>>
serverVars == <<phase, exitCode, systemPrompt, promptFile, apiKey, calls>>

---------------------------------------------------------------------------
(* Values *)

Str(s) == [t |-> "str", v |-> s]
Num(n) == [t |-> "num", v |-> n]
Bool(b) == [t |-> "bool", v |-> b]
Arr(s) == [t |-> "arr", v |-> s]
Obj(s) == [t |-> "obj", v |-> s]
Null == [t |-> "null"]
Undefined == [t |-> "undef"]
\* A number that is a quotient a / b of two integers, b > 0.
Ratio(a, b) == [t |-> "ratio", num |-> a, den |-> b]

IsNullish(x) == x.t = "null" \/ x.t = "undef"

\* a === b
StrictEq(a, b) == a.t = b.t /\ a = b

\* obj[key]: the value of the entry named key, Undefined when there is none.
RECURSIVE GetIn(_, _)
GetIn(entries, key) ==
    IF entries = <<>> THEN Undefined
    ELSE IF Head(entries)[1] = key THEN Head(entries)[2]
    ELSE GetIn(Tail(entries), key)

Get(obj, key) == IF obj.t = "obj" THEN GetIn(obj.v, key) ELSE Undefined

\* JavaScript truthiness of a value.
Truthy(x) ==
    CASE x.t = "null" -> FALSE
      [] x.t = "undef" -> FALSE
      [] x.t = "str" -> x.v # <<>>
      [] x.t = "num" -> x.v # 0
      [] x.t = "bool" -> x.v
      [] OTHER -> TRUE

---------------------------------------------------------------------------
(* Guardrail scanner *)

GUARDRAIL_KEYWORDS ==
    << <<"reset", "guardrails">>,
       <<"disable", "guardrails">>,
       <<"ignore", "guardrails">>,
       <<"bypass", "guardrails">>,
       <<"disable", "safety">>,
       <<"bypass", "safety">>,
       <<"disable", "protections">>,
       <<"turn", "off", "protections">> >>

\* String.prototype.toLowerCase on one word.
LowerWord(w) ==
    CASE w = "Disable" -> "disable"
      [] w = "DISABLE" -> "disable"
      [] w = "Guardrails" -> "guardrails"
      [] w = "GUARDRAILS" -> "guardrails"
      [] w = "Turn" -> "turn"
      [] w = "OFF" -> "off"
      [] w = "Protections" -> "protections"
      [] w = "Please" -> "please"
      [] OTHER -> w

toLowerCase(s) == [i \in 1..Len(s) |-> LowerWord(s[i])]

\* String.prototype.includes
includes(s, k) ==
    \E i \in 0..(Len(s) - Len(k)) : SubSeq(s, i + 1, i + Len(k)) = k

\* The scanner that forgets to lower-case its input.
containsKeywordCaseSensitive(s) ==
    \E n \in 1..Len(GUARDRAIL_KEYWORDS) : includes(s, GUARDRAIL_KEYWORDS[n])

containsKeyword(s) ==
    LET lower == toLowerCase(s)
    IN \E n \in 1..Len(GUARDRAIL_KEYWORDS) : includes(lower, GUARDRAIL_KEYWORDS[n])

RECURSIVE containsGuardrailBypass(_)
containsGuardrailBypass(p) ==
    IF p.t = "null" \/ p.t = "undef" THEN FALSE
    ELSE IF p.t = "str" THEN containsKeyword(p.v)
    ELSE IF p.t = "arr" THEN \E i \in 1..Len(p.v) : containsGuardrailBypass(p.v[i])
    ELSE IF p.t = "obj" THEN \E i \in 1..Len(p.v) : containsGuardrailBypass(p.v[i][2])
    ELSE FALSE

guardrailViolationResponse ==
    [content |-> <<"Request rejected: system guardrails cannot be bypassed.">>,
     structuredContent |-> Undefined,
     isError |-> TRUE]

---------------------------------------------------------------------------
(* Scanner harness: payloads of bounded nesting depth are built around a   *)
(* leaf and handed to containsGuardrailBypass.                             *)

MaxDepth == 2

ScanStrings ==
    { <<>>,
      <<"hello", "world">>,
      <<"Please", "DISABLE", "Guardrails", "now">>,
      <<"ignore", "safety">>,
      <<"Turn", "OFF", "Protections">>,
      <<"guardrails", "disable">>,
      <<"bypass", "the", "safety">>,
      <<"disable">> }

ScanLeaves ==
    {Str(s) : s \in ScanStrings} \cup {Num(0), Num(7), Bool(TRUE), Null, Undefined}

ScanSiblings == {Str(<<"hello">>), Str(<<"bypass", "safety">>), Null}

RECURSIVE Depth(_)
Depth(p) ==
    IF p.t = "arr" \/ p.t = "obj"
    THEN IF p.v = <<>> THEN 1
         ELSE 1 + (LET elems == IF p.t = "arr" THEN {p.v[i] : i \in 1..Len(p.v)}
                                 ELSE {p.v[i][2] : i \in 1..Len(p.v)}
                       ds == {Depth(e) : e \in elems}
                   IN CHOOSE d \in ds : \A e \in ds : e <= d)
    ELSE 0

NotScanned == [scanned |-> FALSE, result |-> FALSE]

ScanInit ==
    /\ payload \in ScanLeaves \cup {Arr(<<>>), Obj(<<>>)}
    /\ scanResult = NotScanned

WrapInArray ==
    /\ ~scanResult.scanned
    /\ Depth(payload) < MaxDepth
    /\ \E sib \in ScanSiblings, pos \in {"alone", "before", "after"} :
         payload' = Arr(CASE pos = "alone" -> <<payload>>
                          [] pos = "before" -> <<sib, payload>>
                          [] pos = "after" -> <<payload, sib>>)
    /\ UNCHANGED scanResult

WrapInObject ==
    /\ ~scanResult.scanned
    /\ Depth(payload) < MaxDepth
    /\ \E sib \in ScanSiblings, pos \in {"alone", "before", "after"} :
         payload' = Obj(CASE pos = "alone" -> << <<"field", payload>> >>
                          [] pos = "before" -> << <<"other", sib>>, <<"field", payload>> >>
                          [] pos = "after" -> << <<"field", payload>>, <<"other", sib>> >>)
    /\ UNCHANGED scanResult

Scan ==
    /\ ~scanResult.scanned
    /\ scanResult' = [scanned |-> TRUE, result |-> containsGuardrailBypass(payload)]
    /\ UNCHANGED payload

---------------------------------------------------------------------------
(* Guardrail prompt: rendering (index.ts 28-102) *)

\* String(value) for a scalar.
StringOf(x) ==
    CASE x.t = "str" -> x.v
      [] x.t = "num" -> <<ToString(x.v)>>
      [] x.t = "bool" -> IF x.v THEN <<"true">> ELSE <<"false">>
      [] x.t = "null" -> <<"null">>
      [] x.t = "undef" -> <<"undefined">>
      [] OTHER -> <<"[object Object]">>

IsScalar(x) == x.t \in {"str", "num", "bool"}

Bullet(indent, words) == [indent |-> indent, text |-> <<"-">> \o words]

RECURSIVE ConcatAll(_)
ConcatAll(seqs) == IF seqs = <<>> THEN <<>> ELSE Head(seqs) \o ConcatAll(Tail(seqs))

\* formatValue(value, indent): the lines of the pretty-print; indent counts
\* two-space units (the default '  ' is 1).
RECURSIVE formatValue(_, _)
formatValue(value, indent) ==
    IF value.t = "null" \/ value.t = "undef" THEN << Bullet(indent, <<"(none)">>) >>
    ELSE IF IsScalar(value) THEN << Bullet(indent, StringOf(value)) >>
    ELSE IF value.t = "arr" THEN
        IF Len(value.v) = 0 THEN << Bullet(indent, <<"(none)">>) >>
        ELSE ConcatAll([i \in 1..Len(value.v) |->
                 IF IsScalar(value.v[i])
                 THEN << Bullet(indent, StringOf(value.v[i])) >>
                 ELSE formatValue(value.v[i], indent + 1)])
    ELSE IF value.t = "obj" THEN
        IF Len(value.v) = 0 THEN << Bullet(indent, <<"(empty)">>) >>
        ELSE ConcatAll([i \in 1..Len(value.v) |->
                 << Bullet(indent, <<value.v[i][1], ":">>) >>
                 \o formatValue(value.v[i][2], indent + 1)])
    ELSE << Bullet(indent, StringOf(value)) >>

\* a ?? b
Coalesce(a, b) == IF a.t = "null" \/ a.t = "undef" THEN b ELSE a

\* The pushSection calls of renderPrompt, in order: <<title (upper-cased), key>>.
SECTIONS ==
    << <<"PRODUCT OVERVIEW", "product_overview">>,
       <<"IDENTITY", "identity">>,
       <<"PRIVACY", "privacy">>,
       <<"VALIDATION AND SECURITY", "validation_and_security">>,
       <<"EVALUATION STANDARDS", "evaluation_standards">>,
       <<"PROMOTION POLICY", "promotion_policy">>,
       <<"WORKFLOW", "workflow">>,
       <<"COMMUNICATION STYLE", "communication_style">>,
       <<"AVAILABLE TOOLS", "available_tools">>,
       <<"HUMAN IN LOOP", "human_in_loop">>,
       <<"ERROR HANDLING", "error_handling">>,
       <<"SESSION MANAGEMENT", "session_management">>,
       <<"WORKFLOW TEMPLATES", "workflow_templates">> >>

\* The pushSection that returns on any falsy value: if (!value) return.
pushSectionSkipFalsy(title, value) ==
    IF ~Truthy(value) THEN <<>>
    ELSE << [title |-> title, lines |-> formatValue(value, 1)] >>

\* pushSection(title, value): the section it pushes, or nothing.
pushSection(title, value) ==
    IF value.t = "undef" \/ value.t = "null" THEN <<>>
    ELSE << [title |-> title, lines |-> formatValue(value, 1)] >>

\* renderPrompt(data): the sections, which the code joins with blank lines.
renderPrompt(data) ==
    LET version == Coalesce(Get(data, "version"), Str(<<"unknown">>))
        updated == Coalesce(Get(data, "last_updated"), Str(<<"unknown">>))
        header == [title |-> "CoderSwap MCP System Guardrails",
                   lines |-> << [indent |-> 0,
                                 text |-> <<"Version:">> \o StringOf(version)
                                          \o <<"(Last updated">> \o StringOf(updated) \o <<")">>] >>]
        owners == Get(data, "owners")
        ownerLine(owner) ==
            LET name == Coalesce(Get(owner, "name"), Str(<<"Unknown">>))
                contact == Get(owner, "contact")
            IN [indent |-> 1,
                text |-> <<"-">> \o StringOf(name)
                         \o (IF Truthy(contact) THEN <<"(">> \o StringOf(contact) \o <<")">> ELSE <<>>)]
        ownersSection ==
            IF owners.t = "arr" /\ Len(owners.v) > 0
            THEN << [title |-> "Owners:", lines |-> [i \in 1..Len(owners.v) |-> ownerLine(owners.v[i])]] >>
            ELSE <<>>
        description == Get(data, "description")
        descriptionSection ==
            IF Truthy(description)
            THEN << [title |-> "Description:", lines |-> << [indent |-> 1, text |-> StringOf(description)] >>] >>
            ELSE <<>>
    IN <<header>> \o ownersSection \o descriptionSection
       \o ConcatAll([i \in 1..Len(SECTIONS) |-> pushSection(SECTIONS[i][1], Get(data, SECTIONS[i][2]))])

\* !text || !text.trim(): the joined text has no visible character.
IsBlankText(sections) ==
    \A i \in 1..Len(sections) :
        /\ sections[i].title = ""
        /\ \A j \in 1..Len(sections[i].lines) : sections[i].lines[j].text = <<>>

---------------------------------------------------------------------------
(* Start-up (index.ts 142-186, 698-700) *)

\* What YAML.parse makes of the file: a syntax error, or a document.
YamlError == [ok |-> FALSE, doc |-> Null]
YamlDoc(d) == [ok |-> TRUE, doc |-> d]

FullPolicy ==
    Obj(<< <<"version", Num(3)>>,
           <<"last_updated", Str(<<"2025-01-01">>)>>,
           <<"owners", Arr(<< Obj(<< <<"name", Str(<<"Platform">>)>>,
                                     <<"contact", Str(<<"team@example.com">>)>> >>) >>)>>,
           <<"description", Str(<<"Guardrails", "for", "agents">>)>>,
           <<"identity", Obj(<< <<"role", Str(<<"assistant">>)>> >>)>>,
           <<"privacy", Arr(<< Str(<<"no", "pii">>), Null >>)>> >>)

\* Sections out of the rendering order, and a key the renderer does not know.
ShuffledPolicy ==
    Obj(<< <<"workflow", Arr(<<>>)>>,
           <<"internal_notes", Str(<<"secret">>)>>,
           <<"identity", Str(<<"assistant">>)>>,
           <<"privacy", Null>> >>)

PolicyDocs ==
    { Null, Str(<<"just", "text">>), Num(42), Bool(TRUE),
      Obj(<<>>), Arr(<<>>), Arr(<< Str(<<"a">>) >>),
      Obj(<< <<"internal_notes", Str(<<"secret">>)>> >>),
      FullPolicy, ShuffledPolicy }

PromptFiles ==
    { [readable |-> FALSE, hashMatches |-> FALSE, yaml |-> YamlError] }
    \cup { [readable |-> TRUE, hashMatches |-> h, yaml |-> y] :
             h \in BOOLEAN, y \in {YamlError} \cup {YamlDoc(d) : d \in PolicyDocs} }

ApiKeys == {Undefined, Str(<<>>), Str(<<"sk_test_key">>)}

\* process.exit(code)
Exit(code) ==
    /\ phase' = "exited"
    /\ exitCode' = code

\* The loader that does not compare the hash.
PromptLoadOutcomeNoHashCheck ==
    IF ~promptFile.readable THEN "readFailed"
    ELSE IF ~promptFile.yaml.ok THEN "parseFailed"
    ELSE IF ~Truthy(promptFile.yaml.doc) \/ promptFile.yaml.doc.t \notin {"obj", "arr"} THEN "invalid"
    ELSE "loaded"

\* The try block of index.ts 144-169: read, hash, parse, render.
\* typeof x === 'object' holds of arrays and of mappings (null is falsy).
PromptLoadOutcome ==
    IF ~promptFile.readable THEN "readFailed"
    ELSE IF ~promptFile.hashMatches THEN "hashMismatch"
    ELSE IF ~promptFile.yaml.ok THEN "parseFailed"
    ELSE IF ~Truthy(promptFile.yaml.doc) \/ promptFile.yaml.doc.t \notin {"obj", "arr"} THEN "invalid"
    ELSE IF IsBlankText(renderPrompt(promptFile.yaml.doc)) THEN "emptyRender"
    ELSE "loaded"

LoadPrompt ==
    /\ phase = "boot"
    /\ IF PromptLoadOutcome = "loaded"
       THEN /\ systemPrompt' = renderPrompt(promptFile.yaml.doc)
            /\ phase' = "promptLoaded"
            /\ UNCHANGED exitCode
       ELSE /\ Exit(1)
            /\ UNCHANGED systemPrompt
    /\ UNCHANGED <<promptFile, apiKey, calls, scanVars>>

CheckApiKey ==
    /\ phase = "promptLoaded"
    /\ IF Truthy(apiKey)
       THEN phase' = "keyChecked" /\ UNCHANGED exitCode
       ELSE Exit(1)
    /\ UNCHANGED <<systemPrompt, promptFile, apiKey, calls, scanVars>>

\* new CoderSwapClient, new McpServer, the registerTool calls, server.connect.
Connect ==
    /\ phase = "keyChecked"
    /\ phase' = "connected"
    /\ UNCHANGED <<exitCode, systemPrompt, promptFile, apiKey, calls, scanVars>>

---------------------------------------------------------------------------
(* Zod schemas (the inputSchema / outputSchema of each registerTool call)  *)

ZString(min) == [k |-> "string", min |-> min, url |-> FALSE]
ZUrl == [k |-> "string", min |-> 0, url |-> TRUE]
ZNumber == [k |-> "number", bounded |-> FALSE, lo |-> 0, hi |-> 0]
ZRange(lo, hi) == [k |-> "number", bounded |-> TRUE, lo |-> lo, hi |-> hi]
ZBoolean == [k |-> "boolean"]
ZAny == [k |-> "any"]
ZArray(of, min) == [k |-> "array", of |-> of, min |-> min]
ZOptional(of) == [k |-> "optional", of |-> of]
ZDefault(of, value) == [k |-> "default", of |-> of, value |-> value]
ZObject(shape) == [k |-> "object", shape |-> shape]

\* z.string().url() accepts what new URL() parses: the string starts with a
\* scheme and a host; a space later in it is accepted (it is percent-encoded).
UrlHeads == {"https://example.com/docs", "https://example.com/?q=disable"}

IsUrl(words) == Len(words) >= 1 /\ words[1] \in UrlHeads

\* schema.safeParse(x).success
RECURSIVE Valid(_, _)
Valid(schema, x) ==
    CASE schema.k = "string" ->
            /\ x.t = "str"
            /\ Len(x.v) >= schema.min
            /\ (schema.url => IsUrl(x.v))
      [] schema.k = "number" ->
            \/ /\ x.t = "num"
               /\ (schema.bounded => (schema.lo <= x.v /\ x.v <= schema.hi))
            \/ x.t = "ratio" /\ ~schema.bounded
      [] schema.k = "boolean" -> x.t = "bool"
      [] schema.k = "any" -> TRUE
      [] schema.k = "optional" -> x.t = "undef" \/ Valid(schema.of, x)
      [] schema.k = "default" -> x.t = "undef" \/ Valid(schema.of, x)
      [] schema.k = "array" ->
            /\ x.t = "arr"
            /\ Len(x.v) >= schema.min
            /\ \A i \in 1..Len(x.v) : Valid(schema.of, x.v[i])
      [] schema.k = "object" ->
            /\ x.t = "obj"
            /\ \A i \in 1..Len(schema.shape) :
                   Valid(schema.shape[i][2], Get(x, schema.shape[i][1]))

\* schema.parse(x) for a valid x: defaults filled in, unknown keys stripped,
\* keys with no value left out.
RECURSIVE Parsed(_, _)
Parsed(schema, x) ==
    CASE schema.k = "default" -> IF x.t = "undef" THEN schema.value ELSE Parsed(schema.of, x)
      [] schema.k = "optional" -> IF x.t = "undef" THEN x ELSE Parsed(schema.of, x)
      [] schema.k = "array" -> Arr([i \in 1..Len(x.v) |-> Parsed(schema.of, x.v[i])])
      [] schema.k = "object" ->
            Obj(ConcatAll([i \in 1..Len(schema.shape) |->
                    LET val == Parsed(schema.shape[i][2], Get(x, schema.shape[i][1]))
                    IN IF val.t = "undef" THEN <<>> ELSE << <<schema.shape[i][1], val>> >>]))
      [] OTHER -> x

---------------------------------------------------------------------------
(* Backend replies and the client's handleResponse (coderswap-client.ts)   *)

\* A thrown value: an Error with its message, or something that is no Error.
Err(message) == [instanceOfError |-> TRUE, message |-> message]
NonError == [instanceOfError |-> FALSE, message |-> <<>>]

\* What an awaited call gives: a value, or a throw.
Return(value) == [threw |-> FALSE, value |-> value, error |-> NonError]
Throw(error) == [threw |-> TRUE, value |-> Undefined, error |-> error]

\* JSON.stringify
RECURSIVE Stringify(_)
Stringify(x) ==
    CASE x.t = "str" -> <<"\"">> \o x.v \o <<"\"">>
      [] x.t = "num" -> <<ToString(x.v)>>
      [] x.t = "bool" -> IF x.v THEN <<"true">> ELSE <<"false">>
      [] x.t = "null" -> <<"null">>
      [] x.t = "undef" -> <<>>
      [] x.t = "arr" ->
            <<"[">> \o ConcatAll([i \in 1..Len(x.v) |-> Stringify(x.v[i]) \o <<",">>]) \o <<"]">>
      [] x.t = "obj" ->
            <<"{">> \o ConcatAll([i \in 1..Len(x.v) |->
                          <<x.v[i][1], ":">> \o Stringify(x.v[i][2]) \o <<",">>]) \o <<"}">>

\* A response body: JSON text of a value, or text that is no JSON.
JsonBody(value) == [parses |-> TRUE, value |-> value, text |-> Stringify(value)]
TextBody(words) == [parses |-> FALSE, value |-> Undefined, text |-> words]

\* What fetch settles with: a rejection, or a response with status and body.
FetchRejected(error) == [kind |-> "rejected", error |-> error]
Response(status, body) == [kind |-> "response", status |-> status, body |-> body]
ResponseOk(reply) == 200 <= reply.status /\ reply.status <= 299

\* The detail handleResponse extracts from the body of a non-ok response.
ErrorDetail(body) ==
    IF ~body.parses THEN body.text
    ELSE LET json == body.value
         IN IF json.t = "null" THEN body.text
            ELSE IF Truthy(Get(json, "detail"))
                 THEN IF Get(json, "detail").t = "str" THEN Get(json, "detail").v
                      ELSE Stringify(Get(json, "detail"))
            ELSE IF Truthy(Get(json, "errors")) THEN Stringify(Get(json, "errors"))
            ELSE IF Truthy(Get(json, "message")) THEN StringOf(Get(json, "message"))
            ELSE body.text

handleResponse(res) ==
    IF ~ResponseOk(res)
    THEN Throw(Err(<<"CoderSwap API error (", ToString(res.status), "):">> \o ErrorDetail(res.body)))
    ELSE IF res.body.parses THEN Return(res.body.value)
         ELSE Throw(Err(<<"Unexpected token in JSON">>))

\* await fetch(...) followed by this.handleResponse(res)
fetchThenHandle(reply) ==
    IF reply.kind = "rejected" THEN Throw(reply.error) ELSE handleResponse(reply)

---------------------------------------------------------------------------
(* The registered tools (index.ts 188-696): names, schemas, texts          *)

CreateProject == "coderswap_create_project"
ListProjects == "coderswap_list_projects"
GetProjectStats == "coderswap_get_project_stats"
ResearchIngest == "coderswap_research_ingest"
GetJobStatus == "coderswap_get_job_status"
Search == "coderswap_search"
ValidateSearch == "coderswap_validate_search"
LogSessionNote == "coderswap_log_session_note"

Tools ==
    {CreateProject, ListProjects, GetProjectStats, ResearchIngest,
     GetJobStatus, Search, ValidateSearch, LogSessionNote}

inputSchema(tool) ==
    CASE tool = CreateProject ->
            ZObject(<< <<"name", ZString(1)>>, <<"description", ZOptional(ZString(0))>> >>)
      [] tool = ListProjects -> ZObject(<<>>)
      [] tool = GetProjectStats -> ZObject(<< <<"project_id", ZString(1)>> >>)
      [] tool = ResearchIngest ->
            ZObject(<< <<"project_id", ZString(1)>>,
                       <<"research_summary", ZOptional(ZString(0))>>,
                       <<"urls", ZArray(ZUrl, 1)>>,
                       <<"intent", ZOptional(ZString(0))>>,
                       <<"depth", ZDefault(ZRange(0, 1), Num(0))>>,
                       <<"generate_dsl", ZDefault(ZBoolean, Bool(TRUE))>> >>)
      [] tool = GetJobStatus -> ZObject(<< <<"job_id", ZString(1)>> >>)
      [] tool = Search ->
            ZObject(<< <<"project_id", ZString(1)>>,
                       <<"query", ZString(1)>>,
                       <<"top_k", ZDefault(ZRange(1, 50), Num(10))>>,
                       <<"snippet_length", ZDefault(ZRange(50, 1000), Num(200))>> >>)
      [] tool = ValidateSearch ->
            ZObject(<< <<"project_id", ZString(1)>>,
                       <<"test_queries", ZOptional(ZArray(ZString(0), 0))>>,
                       <<"run_full_suite", ZDefault(ZBoolean, Bool(FALSE))>> >>)
      [] tool = LogSessionNote ->
            ZObject(<< <<"project_id", ZString(1)>>,
                       <<"summary_text", ZString(1)>>,
                       <<"job_id", ZOptional(ZString(0))>>,
                       <<"ingestion_metrics", ZOptional(ZAny)>>,
                       <<"tags", ZOptional(ZAny)>> >>)

outputSchema(tool) ==
    CASE tool = CreateProject ->
            ZObject(<< <<"project_id", ZString(0)>>,
                       <<"name", ZString(0)>>,
                       <<"status", ZOptional(ZString(0))>> >>)
      [] tool = ListProjects ->
            ZObject(<< <<"count", ZNumber>>,
                       <<"projects", ZArray(ZObject(<< <<"project_id", ZString(0)>>,
                                                       <<"name", ZOptional(ZString(0))>>,
                                                       <<"doc_count", ZOptional(ZNumber)>> >>), 0)>> >>)
      [] tool = GetProjectStats ->
            ZObject(<< <<"project_id", ZString(0)>>,
                       <<"name", ZOptional(ZString(0))>>,
                       <<"doc_count", ZOptional(ZNumber)>>,
                       <<"created_at", ZOptional(ZString(0))>> >>)
      [] tool = ResearchIngest ->
            ZObject(<< <<"job_id", ZString(0)>>,
                       <<"project_id", ZString(0)>>,
                       <<"status", ZString(0)>> >>)
      [] tool = GetJobStatus ->
            ZObject(<< <<"job_id", ZString(0)>>,
                       <<"state", ZString(0)>>,
                       <<"crawled_count", ZOptional(ZNumber)>>,
                       <<"failed_count", ZOptional(ZNumber)>> >>)
      [] tool = Search ->
            ZObject(<< <<"query", ZString(0)>>,
                       <<"result_count", ZNumber>>,
                       <<"results", ZArray(ZObject(<< <<"score", ZNumber>>,
                                                      <<"title", ZOptional(ZString(0))>>,
                                                      <<"snippet", ZOptional(ZString(0))>> >>), 0)>> >>)
      [] tool = ValidateSearch ->
            ZObject(<< <<"queries_tested", ZNumber>>,
                       <<"average_top_score", ZNumber>>,
                       <<"zero_result_queries", ZArray(ZString(0), 0)>> >>)
      [] tool = LogSessionNote ->
            ZObject(<< <<"note_id", ZString(0)>>,
                       <<"project_id", ZString(0)>>,
                       <<"timestamp", ZString(0)>> >>)

\* The text each catch block puts before the message ("[x]" stands for the
\* cross mark of the source).
FailurePrefix(tool) ==
    CASE tool = CreateProject -> "[x] Failed to create project:"
      [] tool = ListProjects -> "[x] Failed to list projects:"
      [] tool = GetProjectStats -> "[x] Failed to get project stats:"
      [] tool = ResearchIngest -> "[x] Failed to start research ingest:"
      [] tool = GetJobStatus -> "[x] Failed to get job status:"
      [] tool = Search -> "[x] Search failed:"
      [] tool = ValidateSearch -> "[x] Search quality test failed:"
      [] tool = LogSessionNote -> "[x] Failed to log session note:"

\* A handler whose catch block rethrows instead of answering.
catchRethrows(tool, result) == result

\* try { body } catch (error) { return { content: ..., isError: true } }
catch(tool, result) ==
    IF result.threw
    THEN Return([content |-> <<FailurePrefix(tool)>>
                              \o (IF result.error.instanceOfError
                                  THEN result.error.message
                                  ELSE <<"Unknown error">>),
                 structuredContent |-> Undefined,
                 isError |-> TRUE])
    ELSE result

Success(text, output) == [content |-> text, structuredContent |-> output, isError |-> FALSE]

\* Reading a property of null or undefined throws a TypeError.
TypeErrorOn(x) == Err(<<"Cannot read properties of">> \o StringOf(x))

\* a || b
Or(a, b) == IF Truthy(a) THEN a ELSE b

---------------------------------------------------------------------------
(* The client's requests (coderswap-client.ts 76-147)                      *)

Request(method, path, body) ==
    [method |-> method, path |-> path, body |-> body, apiKeyHeader |-> apiKey]
NoRequest == [method |-> "none"]

createProjectRequest(input) ==
    Request("POST", <<"/v1/projects">>,
            Obj(<< <<"name", Get(input, "name")>>,
                   <<"description", Get(input, "description")>>,
                   <<"embedding_dim", Num(384)>> >>))

listProjectsRequest == Request("GET", <<"/v1/projects">>, Undefined)

\* The multipart form of researchIngest: set() for the scalars, append() per url.
researchIngestRequest(input) ==
    Request("POST", <<"/research/ingest">>,
            Obj(<< <<"project_id", Get(input, "project_id")>>,
                   <<"generate_dsl", Str(StringOf(Get(input, "generate_dsl")))>>,
                   <<"depth", Str(StringOf(Coalesce(Get(input, "depth"), Num(0))))>> >>
                \o (IF Truthy(Get(input, "research_summary"))
                    THEN << <<"research_summary", Get(input, "research_summary")>> >> ELSE <<>>)
                \o (IF Truthy(Get(input, "intent"))
                    THEN << <<"intent", Get(input, "intent")>> >> ELSE <<>>)
                \o (LET urls == Or(Get(input, "urls"), Arr(<<>>))
                    IN [i \in 1..Len(urls.v) |-> <<"urls", urls.v[i]>>])))

getJobStatusRequest(jobId) ==
    Request("GET", <<"/research/jobs/">> \o StringOf(jobId), Undefined)

searchRequest(input) ==
    Request("POST", <<"/v1/search">>,
            Obj(<< <<"project_id", Get(input, "project_id")>>,
                   <<"query", Get(input, "query")>>,
                   <<"snippet_length", Coalesce(Get(input, "snippet_length"), Num(200))>>,
                   <<"settings", Obj(<< <<"k", Coalesce(Get(input, "top_k"), Num(5))>> >>)>> >>))

\* listProjects after its fetch: the projects array, or [] when it is no array.
listProjects(r) ==
    IF r.threw THEN r
    ELSE IF IsNullish(r.value) THEN Throw(TypeErrorOn(r.value))
    ELSE Return(IF Get(r.value, "projects").t = "arr" THEN Get(r.value, "projects") ELSE Arr(<<>>))

\* projects.find(item => item.project_id === projectId)
RECURSIVE find(_, _)
find(items, projectId) ==
    IF items = <<>> THEN Return(Undefined)
    ELSE IF IsNullish(Head(items)) THEN Throw(TypeErrorOn(Head(items)))
    ELSE IF StrictEq(Get(Head(items), "project_id"), projectId) THEN Return(Head(items))
    ELSE find(Tail(items), projectId)

\* getProjectStats that forgets the not-found check.
getProjectStatsNoCheck(projectId, r) ==
    LET projects == listProjects(r)
    IN IF projects.threw THEN projects ELSE find(projects.value.v, projectId)

\* getProjectStats after the listing has been fetched.
getProjectStats(projectId, r) ==
    LET projects == listProjects(r)
    IN IF projects.threw THEN projects
       ELSE LET project == find(projects.value.v, projectId)
            IN IF project.threw THEN project
               ELSE IF ~Truthy(project.value)
                    THEN Throw(Err(<<"Project">> \o StringOf(projectId) \o <<"not found">>))
                    ELSE project

\* getJobStatus after its fetch: data.job
getJobStatus(r) ==
    IF r.threw THEN r
    ELSE IF IsNullish(r.value) THEN Throw(TypeErrorOn(r.value))
    ELSE Return(Get(r.value, "job"))

---------------------------------------------------------------------------
(* The handlers, from the settled backend call to the response             *)

\* coderswap_create_project (index.ts 204-234)
createProjectBody(input, r) ==
    IF r.threw THEN r
    ELSE LET project == r.value
         IN IF IsNullish(project) THEN Throw(TypeErrorOn(project))
            ELSE Return(Success(
                   <<"[v] Created project">> \o StringOf(Get(input, "name"))
                       \o <<"(ID:">> \o StringOf(Get(project, "project_id")) \o <<")">>,
                   Obj(<< <<"project_id", Get(project, "project_id")>>,
                          <<"name", Or(Get(project, "name"), Get(input, "name"))>>,
                          <<"status", Get(project, "status")>> >>)))

\* coderswap_list_projects (index.ts 253-311)
listProjectsBody(r) ==
    LET listed == listProjects(r)
    IN IF listed.threw THEN listed
       ELSE LET projects == listed.value.v
            IN IF \E i \in 1..Len(projects) : IsNullish(projects[i])
               THEN Throw(TypeErrorOn(Null))
               ELSE LET output ==
                          Obj(<< <<"count", Num(Len(projects))>>,
                                 <<"projects",
                                   Arr([i \in 1..Len(projects) |->
                                        Obj(<< <<"project_id", Get(projects[i], "project_id")>>,
                                               <<"name", Get(projects[i], "name")>>,
                                               <<"doc_count", Get(projects[i], "doc_count")>>,
                                               <<"search_mode", Get(projects[i], "search_mode")>> >>)])>> >>)
                    IN Return(Success(
                           IF Len(projects) = 0 THEN <<"No projects found">>
                           ELSE <<"Found", ToString(Len(projects)), "project(s):">>
                                \o ConcatAll([i \in 1..Len(projects) |->
                                       StringOf(Or(Get(projects[i], "name"), Str(<<"Untitled Project">>)))
                                       \o <<"ID:">> \o StringOf(Get(projects[i], "project_id"))
                                       \o <<"Docs:">> \o StringOf(Coalesce(Get(projects[i], "doc_count"), Num(0)))]),
                           output))

\* coderswap_get_project_stats (index.ts 330-361)
getProjectStatsBody(input, r) ==
    LET found == getProjectStats(Get(input, "project_id"), r)
    IN IF found.threw THEN found
       ELSE LET stats == found.value
            IN IF IsNullish(stats) THEN Throw(TypeErrorOn(stats))
               ELSE Return(Success(
                      <<"Project:">> \o StringOf(Or(Get(stats, "name"), Get(input, "project_id")))
                          \o <<"Documents:">> \o StringOf(Or(Get(stats, "doc_count"), Num(0)))
                          \o <<"Created:">> \o StringOf(Or(Get(stats, "created_at"), Str(<<"Unknown">>))),
                      Obj(<< <<"project_id", Get(stats, "project_id")>>,
                             <<"name", Get(stats, "name")>>,
                             <<"doc_count", Get(stats, "doc_count")>>,
                             <<"created_at", Get(stats, "created_at")>> >>)))

\* coderswap_research_ingest after the await (index.ts 399-413)
researchIngestBody(input, r) ==
    IF r.threw THEN r
    ELSE LET job == r.value
         IN IF IsNullish(job) THEN Throw(TypeErrorOn(job))
            ELSE Return(Success(
                   <<"[v] Queued research ingest job:">> \o StringOf(Get(job, "job_id"))
                       \o <<"Crawling", ToString(Len(Get(input, "urls").v)), "URL(s)...">>
                       \o <<"DSL Generation:">>
                       \o (IF Truthy(Get(input, "generate_dsl")) THEN <<"enabled">> ELSE <<"disabled">>),
                   Obj(<< <<"job_id", Get(job, "job_id")>>,
                          <<"project_id", Get(input, "project_id")>>,
                          <<"status", Str(<<"queued">>)>> >>)))

\* coderswap_get_job_status (index.ts 443-482)
getJobStatusBody(input, r) ==
    LET got == getJobStatus(r)
    IN IF got.threw THEN got
       ELSE LET job == got.value
            IN IF IsNullish(job) THEN Throw(TypeErrorOn(job))
               ELSE Return(Success(
                      <<"Job:">> \o StringOf(Get(input, "job_id"))
                          \o <<"Status:">> \o StringOf(Get(job, "state"))
                          \o (IF Get(job, "crawled_count").t # "undef"
                              THEN <<"Crawled:">> \o StringOf(Get(job, "crawled_count")) \o <<"documents">>
                              ELSE <<>>)
                          \o (IF Get(job, "failed_count").t = "num" /\ Get(job, "failed_count").v > 0
                              THEN <<"Failed:">> \o StringOf(Get(job, "failed_count")) \o <<"documents">>
                              ELSE <<>>),
                      Obj(<< <<"job_id", Get(job, "job_id")>>,
                             <<"state", Get(job, "state")>>,
                             <<"crawled_count", Get(job, "crawled_count")>>,
                             <<"failed_count", Get(job, "failed_count")>> >>)))

\* array.slice(0, n)
slice(items, n) == SubSeq(items, 1, IF Len(items) < n THEN Len(items) ELSE n)

\* The search handler that keeps the query in a variable shared by all calls,
\* so that it answers with the query of the call that was started last.
searchBodySharedQuery(input, r) ==
    IF r.threw THEN r
    ELSE IF IsNullish(r.value) \/ Get(r.value, "results").t # "arr" THEN Throw(TypeErrorOn(Undefined))
    ELSE LET last == CHOOSE d \in {1, 2} :
                         /\ calls[d].pc = "awaiting"
                         /\ \A e \in {1, 2} : calls[e].pc = "awaiting" => e <= d
             query == Get(calls[last].input, "query")
         IN Return(Success(<<"Found", ToString(Len(Get(r.value, "results").v)), "result(s) for:">>
                           \o StringOf(query),
                           Obj(<< <<"query", query>>,
                                  <<"result_count", Num(Len(Get(r.value, "results").v))>>,
                                  <<"results",
                                    Arr([i \in 1..Len(slice(Get(r.value, "results").v, Get(input, "top_k").v)) |->
                                         Obj(<< <<"score", Get(Get(r.value, "results").v[i], "score")>>,
                                                <<"title", Get(Get(r.value, "results").v[i], "title")>>,
                                                <<"snippet", Get(Get(r.value, "results").v[i], "snippet")>> >>)])>> >>)))

\* coderswap_search (index.ts 507-564).  Scores are counted in hundredths.
searchBody(input, r) ==
    IF r.threw THEN r
    ELSE IF IsNullish(r.value) THEN Throw(TypeErrorOn(r.value))
    ELSE LET results == Get(r.value, "results")
         IN IF results.t # "arr" THEN Throw(TypeErrorOn(Undefined))
            ELSE LET shown == slice(results.v, Get(input, "top_k").v)
                 IN IF \E i \in 1..Len(shown) : IsNullish(shown[i])
                    THEN Throw(TypeErrorOn(Null))
                    ELSE IF \E i \in 1..Len(shown) :
                                Truthy(Get(shown[i], "snippet")) /\ Get(shown[i], "snippet").t # "str"
                    THEN Throw(Err(<<"r.snippet.substring is not a function">>))
                    ELSE Return(Success(
                           IF Len(results.v) = 0
                           THEN <<"No results found for:">> \o StringOf(Get(input, "query"))
                           ELSE <<"Found", ToString(Len(results.v)), "result(s) for:">>
                                \o StringOf(Get(input, "query"))
                                \o ConcatAll([i \in 1..Len(shown) |->
                                       <<"Score:">> \o StringOf(Coalesce(Get(shown[i], "score"), Num(0))) \o <<"%">>
                                       \o (IF Truthy(Get(shown[i], "title")) THEN StringOf(Get(shown[i], "title")) ELSE <<>>)
                                       \o (IF Truthy(Get(shown[i], "snippet")) THEN Get(shown[i], "snippet").v ELSE <<>>)]),
                           Obj(<< <<"query", Get(input, "query")>>,
                                  <<"result_count", Num(Len(results.v))>>,
                                  <<"results",
                                    Arr([i \in 1..Len(shown) |->
                                         Obj(<< <<"score", Get(shown[i], "score")>>,
                                                <<"title", Get(shown[i], "title")>>,
                                                <<"snippet", Get(shown[i], "snippet")>> >>)])>> >>)))

---------------------------------------------------------------------------
(* Search quality test (coderswap-client.ts 149-185, index.ts 584-631)     *)

FULL_SUITE ==
    << Str(<<"what", "is", "hybrid", "search">>),
       Str(<<"how", "to", "implement", "rag">>),
       Str(<<"error", "troubleshooting", "vector", "search">>),
       Str(<<"bm25", "algorithm">>),
       Str(<<"semantic", "vs", "keyword", "search">>) >>

\* No deduplication at all.
DedupNone(queries) == queries

\* Array.from(new Set(queries)): a value is inserted when first seen.
RECURSIVE Dedup(_)
Dedup(queries) ==
    IF queries = <<>> THEN <<>>
    ELSE LET before == Dedup(SubSeq(queries, 1, Len(queries) - 1))
             last == queries[Len(queries)]
         IN IF \E i \in 1..Len(before) : before[i] = last THEN before ELSE Append(before, last)

uniqueQueries(input) ==
    Dedup(IF Truthy(Get(input, "run_full_suite")) THEN FULL_SUITE
          ELSE Or(Get(input, "test_queries"), Arr(<<>>)).v)

\* b.score ?? 0, as a number
ScoreOf(r) == Coalesce(Get(r, "score"), Num(0)).v

\* Put r behind every entry whose score is at least r's.
RECURSIVE InsertByScore(_, _)
InsertByScore(sorted, r) ==
    IF sorted = <<>> THEN <<r>>
    ELSE IF ScoreOf(Head(sorted)) >= ScoreOf(r)
         THEN <<Head(sorted)>> \o InsertByScore(Tail(sorted), r)
         ELSE <<r>> \o sorted

\* The results left in the order the backend gave them.
sortByScoreNone(items) == items

\* results.sort((a, b) => (b.score ?? 0) - (a.score ?? 0)): descending, stable.
RECURSIVE sortByScore(_)
sortByScore(items) ==
    IF items = <<>> THEN <<>>
    ELSE InsertByScore(sortByScore(SubSeq(items, 1, Len(items) - 1)), items[Len(items)])

\* One turn of the for loop, after its search has settled: the entry pushed.
qualityEntry(query, r) ==
    IF r.threw THEN r
    ELSE IF IsNullish(r.value) THEN Throw(TypeErrorOn(r.value))
    ELSE LET results == Get(r.value, "results")
         IN IF results.t # "arr" THEN Throw(TypeErrorOn(Undefined))
            ELSE IF Len(results.v) >= 2 /\ \E i \in 1..Len(results.v) : IsNullish(results.v[i])
            THEN Throw(TypeErrorOn(Null))
            ELSE LET sorted == sortByScore(results.v)
                 IN Return([query |-> query,
                            topScore |-> IF sorted = <<>> \/ IsNullish(sorted[1]) THEN Num(0)
                                         ELSE Coalesce(Get(sorted[1], "score"), Num(0)),
                            count |-> Len(sorted),
                            items |-> sorted])

RECURSIVE SumTopScores(_)
SumTopScores(results) ==
    IF results = <<>> THEN 0
    ELSE (IF Truthy(Head(results).topScore) THEN Head(results).topScore.v ELSE 0)
         + SumTopScores(Tail(results))

RECURSIVE zeroResultQueries(_)
zeroResultQueries(results) ==
    IF results = <<>> THEN <<>>
    ELSE (IF Head(results).count = 0 THEN <<Head(results).query>> ELSE <<>>)
         \o zeroResultQueries(Tail(results))

aggregate(results) ==
    [queries_tested |-> Len(results),
     average_top_score |-> Ratio(SumTopScores(results), IF Len(results) > 1 THEN Len(results) ELSE 1),
     zero_result_queries |-> zeroResultQueries(results)]

\* The handler once testSearchQuality has returned its report.
validateSearchReport(results) ==
    LET agg == aggregate(results)
    IN Success(<<"Search Quality Report", "Queries tested:", ToString(agg.queries_tested),
                 "Zero-result queries:", ToString(Len(agg.zero_result_queries))>>
               \o ConcatAll([i \in 1..Len(slice(results, 3)) |->
                      StringOf(results[i].query) \o StringOf(results[i].topScore)
                      \o <<"(", ToString(results[i].count), "results)">>]),
               Obj(<< <<"queries_tested", Num(agg.queries_tested)>>,
                      <<"average_top_score", agg.average_top_score>>,
                      <<"zero_result_queries", Arr(agg.zero_result_queries)>> >>))

---------------------------------------------------------------------------
(* Handler steps: a handler runs until it returns or awaits a fetch        *)

Returned(events, result) ==
    [next |-> "return", events |-> events, result |-> result,
     request |-> NoRequest, queries |-> <<>>, results |-> <<>>]
Fetching(events, request, queries, results) ==
    [next |-> "fetch", events |-> events, result |-> Return(Undefined),
     request |-> request, queries |-> queries, results |-> results]

\* The ingest handler that calls the backend without scanning first.
researchIngestStartNoScan(input) ==
    Fetching(<<"fetch">>, researchIngestRequest(input), <<>>, <<>>)

\* The ingest handler that scans the free-form text fields only.
researchIngestStartFreeTextOnly(input) ==
    IF containsGuardrailBypass(Obj(<< <<"research_summary", Get(input, "research_summary")>>,
                                      <<"intent", Get(input, "intent")>> >>))
    THEN Returned(<<"scan">>, Return(guardrailViolationResponse))
    ELSE Fetching(<<"scan", "fetch">>, researchIngestRequest(input), <<>>, <<>>)

\* coderswap_research_ingest up to its await (index.ts 384-397)
researchIngestStart(input) ==
    IF containsGuardrailBypass(Obj(<< <<"project_id", Get(input, "project_id")>>,
                                      <<"research_summary", Get(input, "research_summary")>>,
                                      <<"urls", Get(input, "urls")>>,
                                      <<"intent", Get(input, "intent")>> >>))
    THEN Returned(<<"scan">>, Return(guardrailViolationResponse))
    ELSE Fetching(<<"scan", "fetch">>, researchIngestRequest(input), <<>>, <<>>)

\* new Date(t).toISOString()
toISOString(t) == <<"T+" \o ToString(t) \o "ms">>

\* The note handler that sends the note to the backend to be stored.
logSessionNoteViaBackend(input, t1, t2) ==
    Fetching(<<"scan", "fetch">>, Request("POST", <<"/v1/notes">>, input), <<>>, <<>>)

\* coderswap_log_session_note (index.ts 652-695); t1 and t2 are the clock as
\* read by new Date() and then by Date.now().  summary_text.substring(0, 100)
\* leaves the summaries of this model, all under 100 characters, whole.
logSessionNote(input, t1, t2) ==
    IF containsGuardrailBypass(Obj(<< <<"project_id", Get(input, "project_id")>>,
                                      <<"summary_text", Get(input, "summary_text")>>,
                                      <<"job_id", Get(input, "job_id")>>,
                                      <<"ingestion_metrics", Get(input, "ingestion_metrics")>>,
                                      <<"tags", Get(input, "tags")>> >>))
    THEN Returned(<<"scan">>, Return(guardrailViolationResponse))
    ELSE Returned(<<"scan">>,
                  catch(LogSessionNote,
                        Return(Success(<<"[v] Logged session note:">> \o Get(input, "summary_text").v,
                                       Obj(<< <<"note_id", Str(<<"note_" \o ToString(t2)>>)>>,
                                              <<"project_id", Get(input, "project_id")>>,
                                              <<"timestamp", Str(toISOString(t1))>> >>)))))

\* The quality test that reports on an empty query list instead of throwing.
validateSearchStartNoEmptyCheck(input) ==
    LET queries == uniqueQueries(input)
    IN IF Len(queries) = 0
       THEN Returned(<<>>, catch(ValidateSearch, Return(validateSearchReport(<<>>))))
       ELSE Fetching(<<"fetch">>,
                     searchRequest(Obj(<< <<"project_id", Get(input, "project_id")>>,
                                          <<"query", queries[1]>> >>)),
                     queries, <<>>)

\* coderswap_validate_search up to the first await of testSearchQuality
validateSearchStart(input) ==
    LET queries == uniqueQueries(input)
    IN IF Len(queries) = 0
       THEN Returned(<<>>, catch(ValidateSearch,
                                 Throw(Err(<<"No queries provided for search quality test">>))))
       ELSE Fetching(<<"fetch">>,
                     searchRequest(Obj(<< <<"project_id", Get(input, "project_id")>>,
                                          <<"query", queries[1]>> >>)),
                     queries, <<>>)

\* The quality test that records a failed search as a query without results
\* and goes on with the remaining queries.
validateSearchResumeSkipFailed(input, queries, results, r) ==
    LET entry == qualityEntry(queries[Len(results) + 1], r)
        done == Append(results,
                       IF entry.threw
                       THEN [query |-> queries[Len(results) + 1], topScore |-> Num(0),
                             count |-> 0, items |-> <<>>]
                       ELSE entry.value)
    IN IF Len(done) < Len(queries)
       THEN Fetching(<<"fetch">>,
                     searchRequest(Obj(<< <<"project_id", Get(input, "project_id")>>,
                                          <<"query", queries[Len(done) + 1]>> >>)),
                     queries, done)
       ELSE Returned(<<>>, catch(ValidateSearch, Return(validateSearchReport(done))))

\* testSearchQuality when the search for queries[Len(results) + 1] settles
validateSearchResume(input, queries, results, r) ==
    LET entry == qualityEntry(queries[Len(results) + 1], r)
    IN IF entry.threw THEN Returned(<<>>, catch(ValidateSearch, entry))
       ELSE LET done == Append(results, entry.value)
            IN IF Len(done) < Len(queries)
               THEN Fetching(<<"fetch">>,
                             searchRequest(Obj(<< <<"project_id", Get(input, "project_id")>>,
                                                  <<"query", queries[Len(done) + 1]>> >>)),
                             queries, done)
               ELSE Returned(<<>>, catch(ValidateSearch, Return(validateSearchReport(done))))

\* The synchronous start of a handler, to its first await or its return.
handlerStart(tool, input, t1, t2) ==
    CASE tool = CreateProject -> Fetching(<<"fetch">>, createProjectRequest(input), <<>>, <<>>)
      [] tool = ListProjects -> Fetching(<<"fetch">>, listProjectsRequest, <<>>, <<>>)
      [] tool = GetProjectStats -> Fetching(<<"fetch">>, listProjectsRequest, <<>>, <<>>)
      [] tool = ResearchIngest -> researchIngestStart(input)
      [] tool = GetJobStatus -> Fetching(<<"fetch">>, getJobStatusRequest(Get(input, "job_id")), <<>>, <<>>)
      [] tool = Search -> Fetching(<<"fetch">>, searchRequest(input), <<>>, <<>>)
      [] tool = ValidateSearch -> validateSearchStart(input)
      [] tool = LogSessionNote -> logSessionNote(input, t1, t2)

\* The handlers with a client that sends a failed request once more.
handlerResumeRetrying(tool, input, queries, results, reply) ==
    LET r == fetchThenHandle(reply)
    IN IF tool = ValidateSearch THEN validateSearchResume(input, queries, results, r)
       ELSE IF r.threw THEN handlerStart(tool, input, 1, 1)
       ELSE Returned(<<>>, catch(tool,
                CASE tool = CreateProject -> createProjectBody(input, r)
                  [] tool = ListProjects -> listProjectsBody(r)
                  [] tool = GetProjectStats -> getProjectStatsBody(input, r)
                  [] tool = ResearchIngest -> researchIngestBody(input, r)
                  [] tool = GetJobStatus -> getJobStatusBody(input, r)
                  [] tool = Search -> searchBody(input, r)))

\* The handler resumed when its fetch settles with reply.
handlerResume(tool, input, queries, results, reply) ==
    LET r == fetchThenHandle(reply)
    IN CASE tool = CreateProject -> Returned(<<>>, catch(tool, createProjectBody(input, r)))
         [] tool = ListProjects -> Returned(<<>>, catch(tool, listProjectsBody(r)))
         [] tool = GetProjectStats -> Returned(<<>>, catch(tool, getProjectStatsBody(input, r)))
         [] tool = ResearchIngest -> Returned(<<>>, catch(tool, researchIngestBody(input, r)))
         [] tool = GetJobStatus -> Returned(<<>>, catch(tool, getJobStatusBody(input, r)))
         [] tool = Search -> Returned(<<>>, catch(tool, searchBody(input, r)))
         [] tool = ValidateSearch -> validateSearchResume(input, queries, results, r)

---------------------------------------------------------------------------
(* Inputs: the arguments callers send and the replies the backend gives    *)

MaxQueries == 3
MaxClock == 2

S(word) == Str(<<word>>)
Fields(entries) == Obj(entries)

CleanSummary == Str(<<"notes", "on", "hybrid", "search">>)
BypassSummary == Str(<<"Please", "DISABLE", "Guardrails", "now">>)
DocsUrl == Str(<<"https://example.com/docs">>)
BypassUrl == Str(<<"https://example.com/?q=disable", "guardrails">>)

RECURSIVE SeqsUpTo(_, _)
SeqsUpTo(set, n) ==
    IF n = 0 THEN {<<>>}
    ELSE LET shorter == SeqsUpTo(set, n - 1)
         IN shorter \cup {Append(q, x) : q \in shorter, x \in set}

IngestArguments ==
    { Fields(<< <<"project_id", S("proj_1")>>, <<"urls", Arr(<<DocsUrl>>)>> >>),
      Fields(<< <<"project_id", S("proj_1")>>, <<"research_summary", CleanSummary>>,
                <<"urls", Arr(<<DocsUrl, DocsUrl>>)>>, <<"intent", S("docs")>>,
                <<"depth", Num(1)>>, <<"generate_dsl", Bool(FALSE)>> >>),
      Fields(<< <<"project_id", S("proj_1")>>, <<"research_summary", BypassSummary>>,
                <<"urls", Arr(<<DocsUrl>>)>> >>),
      Fields(<< <<"project_id", S("proj_1")>>, <<"urls", Arr(<<>>)>> >>),
      Fields(<< <<"project_id", S("proj_1")>>, <<"research_summary", BypassSummary>>,
                <<"urls", Arr(<<>>)>> >>),
      Fields(<< <<"project_id", Str(<<"disable", "guardrails">>)>>, <<"urls", Arr(<<DocsUrl>>)>> >>),
      Fields(<< <<"project_id", S("proj_1")>>, <<"urls", Arr(<<DocsUrl, BypassUrl>>)>> >>),
      Fields(<< <<"project_id", S("proj_1")>>, <<"urls", Arr(<<DocsUrl>>)>>,
                <<"intent", Str(<<"bypass", "safety">>)>> >>),
      Fields(<< <<"project_id", S("proj_1")>>, <<"research_summary", Str(<<"ignore", "safety">>)>>,
                <<"urls", Arr(<<DocsUrl>>)>> >>),
      Fields(<< <<"project_id", S("proj_1")>>, <<"urls", Arr(<<DocsUrl>>)>>, <<"depth", Num(2)>> >>),
      Fields(<< <<"project_id", S("proj_1")>>, <<"urls", Arr(<<Str(<<"not", "a", "url">>)>>)>> >>) }

NoteArguments ==
    { Fields(<< <<"project_id", S("proj_1")>>, <<"summary_text", Str(<<"ingest", "finished">>)>> >>),
      Fields(<< <<"project_id", S("proj_1")>>, <<"summary_text", BypassSummary>> >>),
      Fields(<< <<"project_id", S("proj_1")>>, <<"summary_text", Str(<<"ingest", "finished">>)>>,
                <<"job_id", S("job_1")>>,
                <<"ingestion_metrics", Obj(<< <<"crawled", Num(3)>> >>)>>,
                <<"tags", Arr(<<S("ok")>>)>> >>),
      Fields(<< <<"project_id", S("proj_1")>>, <<"summary_text", Str(<<"ingest", "finished">>)>>,
                <<"tags", Arr(<<S("ok"), Obj(<< <<"note", Str(<<"bypass", "safety">>)>> >>)>>)>> >>),
      Fields(<< <<"project_id", S("proj_1")>>, <<"summary_text", Str(<<"ingest", "finished">>)>>,
                <<"job_id", Str(<<"reset", "guardrails">>)>> >>),
      Fields(<< <<"project_id", Str(<<"ignore", "guardrails">>)>>,
                <<"summary_text", Str(<<"ingest", "finished">>)>> >>),
      Fields(<< <<"project_id", S("proj_1")>>, <<"summary_text", Str(<<"ingest", "finished">>)>>,
                <<"ingestion_metrics", Num(7)>>, <<"tags", Null>> >>),
      Fields(<< <<"project_id", S("proj_1")>>, <<"summary_text", Str(<<>>)>> >>) }

Arguments(tool) ==
    CASE tool = CreateProject ->
            { Fields(<< <<"name", S("Docs")>> >>),
              Fields(<< <<"name", S("Docs")>>, <<"description", Str(<<"team", "docs">>)>> >>),
              Fields(<< <<"name", Str(<<>>)>> >>),
              Fields(<< <<"name", Num(5)>> >>),
              Fields(<<>>) }
      [] tool = ListProjects -> { Fields(<<>>) }
      [] tool = GetProjectStats ->
            { Fields(<< <<"project_id", id>> >>) :
                id \in {S("proj_1"), S("proj_2"), S("proj_3"), S("proj_missing"), Str(<<>>)} }
      [] tool = ResearchIngest -> IngestArguments
      [] tool = GetJobStatus ->
            { Fields(<< <<"job_id", id>> >>) :
                id \in {S("job_1"), Str(<<"bypass", "safety">>), Str(<<>>)} }
      [] tool = Search ->
            { Fields(<< <<"project_id", S("proj_1")>>, <<"query", q>> >>) :
                q \in {S("x"), Str(<<"disable", "guardrails">>), Str(<<>>)} }
            \cup { Fields(<< <<"project_id", S("proj_2")>>, <<"query", S("y")>> >>) }
            \cup { Fields(<< <<"project_id", S("proj_1")>>, <<"query", S("x")>>, <<"top_k", Num(k)>> >>) :
                     k \in {0, 2, 51} }
            \cup { Fields(<< <<"project_id", S("proj_1")>>, <<"query", S("x")>>,
                             <<"snippet_length", Num(n)>> >>) : n \in {10, 50} }
      [] tool = ValidateSearch ->
            { Fields(<< <<"project_id", S("proj_1")>>, <<"test_queries", Arr(q)>> >>) :
                q \in SeqsUpTo({S("x"), S("y"), S("z")}, MaxQueries) }
            \cup { Fields(<< <<"project_id", S("proj_1")>> >>),
                   Fields(<< <<"project_id", S("proj_1")>>, <<"run_full_suite", Bool(TRUE)>> >>),
                   Fields(<< <<"project_id", S("proj_1")>>, <<"run_full_suite", Bool(FALSE)>> >>),
                   Fields(<< <<"project_id", S("proj_1")>>, <<"test_queries", Arr(<<S("x")>>)>>,
                             <<"run_full_suite", Bool(TRUE)>> >>),
                   Fields(<< <<"project_id", S("proj_1")>>, <<"test_queries", S("x")>> >>) }
      [] tool = LogSessionNote -> NoteArguments

\* Replies that are failures whatever was asked.
FailureReplies ==
    { FetchRejected(Err(<<"fetch failed">>)),
      FetchRejected(NonError),
      Response(404, JsonBody(Obj(<< <<"detail", Str(<<"Project", "not", "found">>)>> >>))),
      Response(422, JsonBody(Obj(<< <<"detail", Arr(<< Obj(<< <<"msg", S("required")>> >>) >>)>> >>))),
      Response(400, JsonBody(Obj(<< <<"errors", Arr(<<S("bad")>>)>> >>))),
      Response(401, JsonBody(Obj(<< <<"message", Str(<<"Invalid", "API", "key">>)>> >>))),
      Response(502, TextBody(<<"Bad", "Gateway">>)),
      Response(500, JsonBody(Null)) }

\* Replies with a success status whose body is not what was asked for.
OddReplies ==
    { Response(200, TextBody(<<"<html>">>)),
      Response(200, JsonBody(Null)),
      Response(200, JsonBody(Obj(<<>>))) }

Proj1 ==
    Obj(<< <<"project_id", S("proj_1")>>, <<"name", S("Docs")>>, <<"doc_count", Num(12)>>,
           <<"created_at", S("2025-01-01")>>, <<"search_mode", S("hybrid")>> >>)
Proj1Again == Obj(<< <<"project_id", S("proj_1")>>, <<"name", S("Copy")>> >>)
Proj2 == Obj(<< <<"project_id", S("proj_2")>> >>)
Proj3 == Obj(<< <<"project_id", S("proj_3")>>, <<"name", S("Third")>>, <<"doc_count", Null>> >>)

Hit(score, title) == Obj(<< <<"score", Num(score)>>, <<"title", S(title)>>, <<"snippet", S("text")>> >>)

SuccessBodies(tool) ==
    CASE tool = CreateProject ->
            { Obj(<< <<"project_id", S("proj_new")>>, <<"name", S("Docs")>>, <<"status", S("active")>> >>),
              Obj(<< <<"project_id", S("proj_new")>> >>),
              Obj(<< <<"project_id", S("proj_new")>>, <<"name", S("Docs")>>, <<"status", Null>> >>) }
      [] tool \in {ListProjects, GetProjectStats} ->
            { Obj(<< <<"projects", Arr(<<Proj1, Proj2, Proj3>>)>> >>),
              Obj(<< <<"projects", Arr(<<Proj2, Proj1, Proj1Again>>)>> >>),
              Obj(<< <<"projects", Arr(<<>>)>> >>),
              Obj(<< <<"projects", Proj1>> >>),
              Obj(<< <<"projects", Arr(<<Proj2, Null, Proj1>>)>> >>) }
      [] tool = ResearchIngest ->
            { Obj(<< <<"job_id", S("job_1")>>, <<"status", S("running")>> >>) }
      [] tool = GetJobStatus ->
            { Obj(<< <<"job", Obj(<< <<"job_id", S("job_1")>>, <<"state", S("completed")>>,
                                     <<"crawled_count", Num(4)>>, <<"failed_count", Num(1)>> >>)>> >>),
              Obj(<< <<"job", Obj(<< <<"job_id", S("job_1")>>, <<"state", S("queued")>> >>)>> >>),
              Obj(<< <<"job", Obj(<< <<"job_id", S("job_1")>>, <<"state", S("running")>>,
                                     <<"crawled_count", Num(0)>>, <<"failed_count", Null>> >>)>> >>),
              Obj(<< <<"job", Obj(<<>>)>> >>) }
      [] tool \in {Search, ValidateSearch} ->
            { Obj(<< <<"results", Arr(<<>>)>> >>),
              Obj(<< <<"results", Arr(<<Hit(50, "a")>>)>> >>),
              Obj(<< <<"results", Arr(<<Hit(50, "a"), Hit(90, "b")>>)>> >>),
              Obj(<< <<"results", Arr(<<Hit(90, "a"), Obj(<< <<"title", S("b")>> >>), Hit(90, "c")>>)>> >>) }
      [] OTHER -> {}

Replies(tool) ==
    FailureReplies \cup OddReplies \cup {Response(200, JsonBody(b)) : b \in SuccessBodies(tool)}

---------------------------------------------------------------------------
(* Tool calls *)

Slots == {1, 2}

NoResponse == [content |-> <<>>, structuredContent |-> Undefined, isError |-> FALSE]

IdleCall ==
    [pc |-> "idle", tool |-> "none", args |-> Undefined, input |-> Undefined,
     events |-> <<>>, requests |-> <<>>, replies |-> <<>>,
     queries |-> <<>>, results |-> <<>>, peers |-> <<>>,
     outcome |-> "none", resp |-> NoResponse]

\* The other calls that are awaiting a backend reply.
InFlightBeside(c) == {d \in Slots \ {c} : calls[d].pc = "awaiting"}

\* The schemas with the client's researchIngestSchema, whose urls may be empty.
validateInputUrlsMayBeEmpty(tool, args) ==
    IF tool = ResearchIngest
    THEN Valid(ZObject(<< <<"project_id", ZString(1)>>,
                          <<"research_summary", ZOptional(ZString(0))>>,
                          <<"urls", ZArray(ZUrl, 0)>>,
                          <<"intent", ZOptional(ZString(0))>>,
                          <<"depth", ZDefault(ZRange(0, 1), Num(0))>>,
                          <<"generate_dsl", ZDefault(ZBoolean, Bool(TRUE))>> >>), args)
    ELSE Valid(inputSchema(tool), args)

\* The check of the arguments against the tool's inputSchema, made before the
\* handler is invoked.
validateInput(tool, args) == Valid(inputSchema(tool), args)

\* What a finished step makes of the call.
AfterStep(call, step) ==
    IF step.next = "fetch"
    THEN [call EXCEPT !.pc = "awaiting",
                      !.events = call.events \o step.events,
                      !.requests = Append(call.requests, step.request),
                      !.queries = step.queries,
                      !.results = step.results]
    ELSE [call EXCEPT !.pc = "done",
                      !.events = call.events \o step.events,
                      !.outcome = IF step.result.threw THEN "raised" ELSE "returned",
                      !.resp = IF step.result.threw THEN NoResponse ELSE step.result.value]

\* A tools/call request arrives and its arguments are validated.
CallTool(c) ==
    /\ phase = "connected"
    /\ calls[c].pc = "idle"
    /\ \E tool \in Tools : \E args \in Arguments(tool) :
         calls' = [calls EXCEPT ![c] =
             IF validateInput(tool, args)
             THEN [IdleCall EXCEPT !.pc = "validated", !.tool = tool, !.args = args,
                                   !.input = Parsed(inputSchema(tool), args),
                                   !.events = <<"validate">>]
             ELSE [IdleCall EXCEPT !.pc = "done", !.tool = tool, !.args = args,
                                   !.events = <<"validate">>,
                                   !.outcome = "invalid",
                                   !.resp = [content |-> <<"Invalid arguments for tool", tool>>,
                                             structuredContent |-> Undefined,
                                             isError |-> TRUE]]]
    /\ UNCHANGED <<phase, exitCode, systemPrompt, promptFile, apiKey, scanVars>>

\* The handler is invoked with the validated input and runs to its first await.
Invoke(c) ==
    /\ calls[c].pc = "validated"
    /\ \E t1 \in 1..MaxClock : \E t2 \in t1..MaxClock :
         calls' = [calls EXCEPT ![c] =
             AfterStep([calls[c] EXCEPT !.events = Append(@, "invoke"),
                                        !.peers = Append(@, InFlightBeside(c))],
                       handlerStart(calls[c].tool, calls[c].input, t1, t2))]
    /\ UNCHANGED <<phase, exitCode, systemPrompt, promptFile, apiKey, scanVars>>

\* The awaited fetch settles and the handler runs on to its next await or return.
Settle(c) ==
    /\ calls[c].pc = "awaiting"
    /\ \E reply \in Replies(calls[c].tool) :
         calls' = [calls EXCEPT ![c] =
             AfterStep([calls[c] EXCEPT !.replies = Append(@, reply),
                                        !.peers = Append(@, InFlightBeside(c))],
                       handlerResume(calls[c].tool, calls[c].input,
                                     calls[c].queries, calls[c].results, reply))]
    /\ UNCHANGED <<phase, exitCode, systemPrompt, promptFile, apiKey, scanVars>>

\* The response has been sent; the slot is free again.
Retire(c) ==
    /\ calls[c].pc = "done"
    /\ calls' = [calls EXCEPT ![c] = IdleCall]
    /\ UNCHANGED <<phase, exitCode, systemPrompt, promptFile, apiKey, scanVars>>

---------------------------------------------------------------------------
(* Specifications *)

Init ==
    /\ phase = "boot"
    /\ exitCode = -1
    /\ systemPrompt = <<>>
    /\ promptFile \in PromptFiles
    /\ apiKey \in ApiKeys
    /\ calls = [c \in Slots |-> IdleCall]
    /\ payload = Null
    /\ scanResult = NotScanned

Next ==
    \/ LoadPrompt
    \/ CheckApiKey
    \/ Connect
    \/ CallTool(1)
    \/ Invoke(1)
    \/ Settle(1)
    \/ Retire(1)

Spec == Init /\ [][Next]_vars

\* Two search calls side by side: the handlers are async functions, so a second
\* call may start, and its reply may arrive, while the first awaits its own.
CallSearch(c) == CallTool(c) /\ calls'[c].tool = Search

InitPair ==
    /\ Init
    /\ promptFile = [readable |-> TRUE, hashMatches |-> TRUE, yaml |-> YamlDoc(FullPolicy)]
    /\ apiKey = Str(<<"sk_test_key">>)

NextPair ==
    \/ LoadPrompt
    \/ CheckApiKey
    \/ Connect
    \/ CallSearch(1)
    \/ CallSearch(2)
    \/ Invoke(1)
    \/ Invoke(2)
    \/ Settle(1)
    \/ Settle(2)
    \/ Retire(1)
    \/ Retire(2)

SpecPair == InitPair /\ [][NextPair]_vars

\* The scanner on its own, over payloads of bounded depth.
InitScan ==
    /\ ScanInit
    /\ phase = "boot"
    /\ exitCode = -1
    /\ systemPrompt = <<>>
    /\ promptFile = [readable |-> FALSE, hashMatches |-> FALSE, yaml |-> YamlError]
    /\ apiKey = Undefined
    /\ calls = [c \in Slots |-> IdleCall]

NextScan ==
    \/ WrapInArray /\ UNCHANGED serverVars
    \/ WrapInObject /\ UNCHANGED serverVars
    \/ Scan /\ UNCHANGED serverVars

SpecScan == InitScan /\ [][NextScan]_vars

\* The renderer on its own, over documents assembled key by key in any order.
MaxKeys == 3

RenderKeys == {"identity", "privacy", "workflow", "workflow_templates", "internal_notes", "version"}

RenderValues ==
    { Str(<<"assistant">>), Bool(FALSE), Null, Arr(<<>>),
      Obj(<< <<"role", Arr(<< Str(<<"helper">>), Num(2) >>)>> >>) }

InitRender ==
    /\ payload = Obj(<<>>)
    /\ systemPrompt = <<>>
    /\ scanResult = NotScanned
    /\ phase = "boot"
    /\ exitCode = -1
    /\ promptFile = [readable |-> FALSE, hashMatches |-> FALSE, yaml |-> YamlError]
    /\ apiKey = Undefined
    /\ calls = [c \in Slots |-> IdleCall]

\* One more top-level entry of the parsed document.
AddKey ==
    /\ systemPrompt = <<>>
    /\ Len(payload.v) < MaxKeys
    /\ \E key \in RenderKeys, value \in RenderValues :
         /\ Get(payload, key) = Undefined
         /\ \A i \in 1..Len(payload.v) : payload.v[i][1] # key
         /\ payload' = Obj(Append(payload.v, <<key, value>>))
    /\ UNCHANGED <<systemPrompt, scanResult, phase, exitCode, promptFile, apiKey, calls>>

\* systemPrompt = renderPrompt(parsedPrompt)
Render ==
    /\ systemPrompt = <<>>
    /\ systemPrompt' = renderPrompt(payload)
    /\ UNCHANGED <<payload, scanResult, phase, exitCode, promptFile, apiKey, calls>>

NextRender ==
    \/ AddKey
    \/ Render

SpecRender == InitRender /\ [][NextRender]_vars

---------------------------------------------------------------------------
(* Properties *)

Started(call) == call.pc \in {"awaiting", "done"} /\ call.outcome # "invalid"
Finished(call) == call.pc = "done"
RejectedByGuardrail(call) == Finished(call) /\ call.resp = guardrailViolationResponse

\* The strings held anywhere in a value (entry values, not entry names).
RECURSIVE StringsIn(_)
StringsIn(p) ==
    IF p.t = "str" THEN {p.v}
    ELSE IF p.t = "arr" THEN UNION {StringsIn(p.v[i]) : i \in 1..Len(p.v)}
    ELSE IF p.t = "obj" THEN UNION {StringsIn(p.v[i][2]) : i \in 1..Len(p.v)}
    ELSE {}

UpperWord(w) ==
    CASE w \in {"disable", "Disable"} -> "DISABLE"
      [] w \in {"guardrails", "Guardrails"} -> "GUARDRAILS"
      [] w \in {"turn", "Turn"} -> "TURN"
      [] w = "off" -> "OFF"
      [] w \in {"protections", "Protections"} -> "PROTECTIONS"
      [] w \in {"please", "Please"} -> "PLEASE"
      [] OTHER -> w

\* The phrase occurs in the string, letter case ignored.
ContainsIgnoringCase(s, phrase) ==
    \E i \in 1..(Len(s) - Len(phrase) + 1) :
        \A j \in 1..Len(phrase) : UpperWord(s[i + j - 1]) = UpperWord(phrase[j])

MentionsAny(p, phrases) ==
    \E s \in StringsIn(p) : \E phrase \in phrases : ContainsIgnoringCase(s, phrase)

ListedPhrases == {GUARDRAIL_KEYWORDS[n] : n \in 1..Len(GUARDRAIL_KEYWORDS)}

\* Every "disable/bypass/ignore/reset" + "guardrails|safety|protections" phrase.
FamilyPhrases ==
    {<<verb, noun>> : verb \in {"disable", "bypass", "ignore", "reset"},
                      noun \in {"guardrails", "safety", "protections"}}

\* C1: the server is connected, and a tool call is accepted or handled, only
\* when the prompt file was read, its hash matched, it rendered to non-empty
\* text and the API key was present; with the file unreadable, the hash
\* different or the key absent the process gets no further than its exit, which
\* is with a non-zero code, and no call is ever accepted.
StartupGate ==
    /\ (phase \in {"keyChecked", "connected"} \/ \E c \in Slots : calls[c].pc # "idle")
         => /\ promptFile.readable
            /\ promptFile.hashMatches
            /\ promptFile.yaml.ok
            /\ systemPrompt # <<>>
            /\ ~IsBlankText(systemPrompt)
            /\ apiKey.t = "str" /\ apiKey.v # <<>>
    /\ (~promptFile.readable \/ ~promptFile.hashMatches \/ apiKey = Undefined)
         => /\ phase \in {"boot", "promptLoaded", "exited"}
            /\ \A c \in Slots : calls[c] = IdleCall
    /\ (phase = "exited") = (exitCode # -1)
    /\ phase = "exited" => exitCode > 0

StartupGateWitness ==
    /\ phase = "connected"
    /\ calls[1].pc = "done"
    /\ calls[1].outcome = "returned"
    /\ "invoke" \in {calls[1].events[i] : i \in 1..Len(calls[1].events)}

\* C2 (as claimed): with the file read and its hash matching, a parsed document
\* that is not a non-empty mapping stops the start-up: the server is never
\* connected and accepts no call.
IsNonEmptyMapping(doc) == doc.t = "obj" /\ Len(doc.v) > 0

PolicyShapeGate ==
    (promptFile.readable /\ promptFile.hashMatches /\ promptFile.yaml.ok
        /\ ~IsNonEmptyMapping(promptFile.yaml.doc))
      => /\ phase # "connected"
         /\ \A c \in Slots : calls[c] = IdleCall

\* C3 (amended): the scan answers true exactly when some string value of the
\* payload, at any depth, contains one of the eight listed phrases, letter case
\* ignored; null, undefined and empty payloads give false.
ScanFindsListedPhrases ==
    scanResult.scanned => (scanResult.result <=> MentionsAny(payload, ListedPhrases))

ScanFindsListedPhrasesWitness ==
    /\ scanResult.scanned
    /\ scanResult.result
    /\ Depth(payload) = 2
    /\ <<"Please", "DISABLE", "Guardrails", "now">> \in StringsIn(payload)

\* C3 (as claimed): the phrases are the disable/bypass/ignore/reset
\* guardrails|safety|protections combinations.
ScanFindsFamilyPhrases ==
    scanResult.scanned => (scanResult.result <=> MentionsAny(payload, FamilyPhrases))

\* C4: a research-ingest or log-session-note call whose input holds a bypass
\* phrase ends with the fixed rejection, flagged as an error, and has issued no
\* backend request.
GuardrailRejectionIsLocal ==
    \A c \in Slots :
        (Started(calls[c]) /\ calls[c].tool \in {ResearchIngest, LogSessionNote}
            /\ MentionsAny(calls[c].input, ListedPhrases))
          => /\ Finished(calls[c])
             /\ calls[c].outcome = "returned"
             /\ calls[c].resp = guardrailViolationResponse
             /\ calls[c].resp.isError
             /\ calls[c].requests = <<>>
             /\ calls[c].replies = <<>>

GuardrailRejectionIsLocalWitness ==
    /\ calls[1].tool = ResearchIngest
    /\ Get(calls[1].input, "research_summary") = BypassSummary
    /\ Len(Get(calls[1].input, "urls").v) = 1
    /\ RejectedByGuardrail(calls[1])

\* The free-form text inputs: everything but project_id, job_id, the urls and
\* the numeric and boolean parameters.
FreeText(call) ==
    Obj(<< <<"research_summary", Get(call.input, "research_summary")>>,
           <<"intent", Get(call.input, "intent")>>,
           <<"summary_text", Get(call.input, "summary_text")>>,
           <<"ingestion_metrics", Get(call.input, "ingestion_metrics")>>,
           <<"tags", Get(call.input, "tags")>> >>)

Position(seq, e) ==
    IF \E i \in 1..Len(seq) : seq[i] = e
    THEN CHOOSE i \in 1..Len(seq) : seq[i] = e /\ \A j \in 1..(i - 1) : seq[j] # e
    ELSE 0

Occurs(seq, e) == Position(seq, e) > 0
Last(seq) == seq[Len(seq)]

IsNonEmptyString(x) == x.t = "str" /\ x.v # <<>>
IsAbsentOrNumberIn(x, lo, hi) == x.t = "undef" \/ (x.t = "num" /\ lo <= x.v /\ x.v <= hi)

\* The arguments break a constraint the tool declares for its input.
ViolatesDeclaredShape(tool, args) ==
    CASE tool = CreateProject -> ~IsNonEmptyString(Get(args, "name"))
      [] tool = ListProjects -> FALSE
      [] tool = GetProjectStats -> ~IsNonEmptyString(Get(args, "project_id"))
      [] tool = ResearchIngest ->
            \/ ~IsNonEmptyString(Get(args, "project_id"))
            \/ Get(args, "urls").t # "arr"
            \/ Len(Get(args, "urls").v) < 1
            \/ \E i \in 1..Len(Get(args, "urls").v) :
                   Get(args, "urls").v[i].t # "str" \/ ~IsUrl(Get(args, "urls").v[i].v)
            \/ ~IsAbsentOrNumberIn(Get(args, "depth"), 0, 1)
      [] tool = GetJobStatus -> ~IsNonEmptyString(Get(args, "job_id"))
      [] tool = Search ->
            \/ ~IsNonEmptyString(Get(args, "project_id"))
            \/ ~IsNonEmptyString(Get(args, "query"))
            \/ ~IsAbsentOrNumberIn(Get(args, "top_k"), 1, 50)
            \/ ~IsAbsentOrNumberIn(Get(args, "snippet_length"), 50, 1000)
      [] tool = ValidateSearch ->
            \/ ~IsNonEmptyString(Get(args, "project_id"))
            \/ Get(args, "test_queries").t \notin {"undef", "arr"}
      [] tool = LogSessionNote ->
            \/ ~IsNonEmptyString(Get(args, "project_id"))
            \/ ~IsNonEmptyString(Get(args, "summary_text"))

\* C6: in every call the arguments are validated before the handler is
\* invoked, the guardrail scan comes after the validation and before any
\* backend request, and arguments that break the declared shape (urls = []
\* for research-ingest) are rejected with the handler never invoked and no
\* backend request issued.
DispatchOrder ==
    \A c \in Slots :
        LET call == calls[c]
            ev == call.events
        IN /\ \A i \in 1..Len(ev) :
                 /\ ev[i] = "invoke" => \E j \in 1..(i - 1) : ev[j] = "validate"
                 /\ ev[i] = "scan" => \E j \in 1..(i - 1) : ev[j] = "invoke"
                 /\ ev[i] = "fetch" =>
                        /\ \E j \in 1..(i - 1) : ev[j] = "invoke"
                        /\ call.tool \in {ResearchIngest, LogSessionNote}
                             => \E j \in 1..(i - 1) : ev[j] = "scan"
           /\ Len(call.requests) = Cardinality({i \in 1..Len(ev) : ev[i] = "fetch"})
           /\ call.pc # "idle" =>
                 (ViolatesDeclaredShape(call.tool, call.args) <=> call.outcome = "invalid")
           /\ call.outcome = "invalid" =>
                 /\ Finished(call)
                 /\ call.resp.isError
                 /\ ~Occurs(ev, "invoke")
                 /\ ~Occurs(ev, "scan")
                 /\ call.requests = <<>>

DispatchOrderWitness ==
    /\ calls[1].tool = ResearchIngest
    /\ Get(calls[1].args, "urls") = Arr(<<>>)
    /\ Get(calls[1].args, "research_summary") = BypassSummary
    /\ Finished(calls[1])
    /\ calls[1].outcome = "invalid"

BackendFailed(reply) ==
    reply.kind = "rejected" \/ ~ResponseOk(reply) \/ ~reply.body.parses

\* C7: a handler never raises: every call that finishes has a response; and
\* when its backend call failed the response is flagged as an error, its text
\* starts with the tool's failure marker and goes on with the failure's
\* message, or with "Unknown error" when the failure has none.
HandlersAlwaysAnswer ==
    \A c \in Slots :
        LET call == calls[c]
        IN /\ call.outcome # "raised"
           /\ Finished(call) => call.resp.content # <<>>
           /\ (Finished(call) /\ call.replies # <<>> /\ BackendFailed(Last(call.replies)))
                => /\ call.resp.isError
                   /\ call.resp.structuredContent = Undefined
                   /\ call.resp.content[1] = FailurePrefix(call.tool)
                   /\ LET reply == Last(call.replies)
                          message == Tail(call.resp.content)
                      IN IF reply.kind = "rejected"
                         THEN message = IF reply.error.instanceOfError
                                        THEN reply.error.message
                                        ELSE <<"Unknown error">>
                         ELSE IF ~ResponseOk(reply)
                         THEN /\ includes(message, <<ToString(reply.status)>>)
                              /\ ~reply.body.parses => includes(message, reply.body.text)
                              /\ (reply.body.parses /\ Get(reply.body.value, "detail").t = "str")
                                   => includes(message, Get(reply.body.value, "detail").v)
                         ELSE message # <<>>

HandlersAlwaysAnswerWitness ==
    /\ Finished(calls[1])
    /\ calls[1].tool = GetJobStatus
    /\ calls[1].replies = <<FetchRejected(NonError)>>
    /\ calls[1].resp.isError
    /\ calls[1].resp.content = <<FailurePrefix(GetJobStatus), "Unknown error">>

\* C8 (as claimed): every response not flagged as an error has a text part and
\* a structured payload that validates against the tool's output schema.
StructuredOutputValidates ==
    \A c \in Slots :
        (Finished(calls[c]) /\ calls[c].outcome = "returned" /\ ~calls[c].resp.isError)
          => /\ calls[c].resp.content # <<>>
             /\ calls[c].resp.structuredContent.t = "obj"
             /\ Valid(outputSchema(calls[c].tool), calls[c].resp.structuredContent)

\* The reply is a listing: a success whose body is a mapping, with its
\* projects, if an array, holding only mappings.
IsListing(reply) ==
    /\ reply.kind = "response" /\ ResponseOk(reply) /\ reply.body.parses
    /\ reply.body.value.t = "obj"
    /\ Get(reply.body.value, "projects").t = "arr"
         => \A i \in 1..Len(Get(reply.body.value, "projects").v) :
                Get(reply.body.value, "projects").v[i].t = "obj"

Listed(reply) ==
    IF Get(reply.body.value, "projects").t = "arr" THEN Get(reply.body.value, "projects").v ELSE <<>>

\* C9: project-stats makes exactly one request, the project listing; with an
\* identifier that the listing does not hold it answers with an error whose
\* text names the identifier, and with one it holds it answers with the fields
\* of the first project listed under that identifier.
ProjectStatsLookup ==
    \A c \in Slots :
        LET call == calls[c]
        IN (call.tool = GetProjectStats /\ Finished(call) /\ call.outcome = "returned"
              /\ IsListing(Last(call.replies)))
             => LET id == Get(call.input, "project_id")
                    listed == Listed(Last(call.replies))
                    hits == {i \in 1..Len(listed) : StrictEq(Get(listed[i], "project_id"), id)}
                IN /\ Len(call.requests) = 1
                   /\ call.requests[1].method = "GET"
                   /\ call.requests[1].path = <<"/v1/projects">>
                   /\ hits = {} =>
                        /\ call.resp.isError
                        /\ call.resp.content[1] = FailurePrefix(GetProjectStats)
                        /\ includes(call.resp.content, id.v)
                   /\ hits # {} =>
                        LET first == listed[CHOOSE i \in hits : \A j \in hits : i <= j]
                        IN /\ ~call.resp.isError
                           /\ \A key \in {"project_id", "name", "doc_count", "created_at"} :
                                  Get(call.resp.structuredContent, key) = Get(first, key)

ProjectStatsLookupWitness ==
    /\ calls[1].tool = GetProjectStats
    /\ Finished(calls[1])
    /\ Get(calls[1].input, "project_id") = S("proj_missing")
    /\ calls[1].replies = << Response(200, JsonBody(Obj(<< <<"projects", Arr(<<Proj1, Proj2, Proj3>>)>> >>))) >>
    /\ calls[1].resp.isError

\* The queries a search-quality-test call is to run, before deduplication.
SubmittedQueries(call) ==
    IF Get(call.input, "run_full_suite") = Bool(TRUE) THEN FULL_SUITE
    ELSE IF Get(call.input, "test_queries").t = "arr" THEN Get(call.input, "test_queries").v
    ELSE <<>>

\* unique holds each value of list once, in the order of first occurrence.
IsFirstOccurrenceOrder(list, unique) ==
    /\ \A i, j \in 1..Len(unique) : i # j => unique[i] # unique[j]
    /\ {unique[i] : i \in 1..Len(unique)} = {list[i] : i \in 1..Len(list)}
    /\ \A i, j \in 1..Len(unique) :
           i < j => Position(list, unique[i]) < Position(list, unique[j])

\* C10: search-quality-test searches for the distinct queries in the order of
\* their first occurrence, and a run in which every search succeeds makes
\* exactly one search per distinct query.
QualityTestDeduplicates ==
    \A c \in Slots :
        LET call == calls[c]
            submitted == SubmittedQueries(call)
            searched == [i \in 1..Len(call.requests) |-> Get(call.requests[i].body, "query")]
        IN (call.tool = ValidateSearch /\ Started(call))
             => /\ \A i \in 1..Len(call.requests) : call.requests[i].path = <<"/v1/search">>
                /\ \E unique \in {SubSeq(call.queries, 1, n) : n \in 0..Len(call.queries)} :
                       unique = searched
                /\ call.requests # <<>> => IsFirstOccurrenceOrder(submitted, call.queries)
                /\ (Finished(call) /\ ~call.resp.isError)
                     => /\ IsFirstOccurrenceOrder(submitted, searched)
                        /\ Len(call.requests) = Cardinality({submitted[i] : i \in 1..Len(submitted)})

QualityTestDeduplicatesWitness ==
    /\ calls[1].tool = ValidateSearch
    /\ Get(calls[1].input, "test_queries") = Arr(<<S("x"), S("y"), S("x")>>)
    /\ Finished(calls[1])
    /\ ~calls[1].resp.isError
    /\ [i \in 1..Len(calls[1].requests) |-> Get(calls[1].requests[i].body, "query")] = <<S("x"), S("y")>>

\* The call asks for no query at all: the built-in suite is not selected and
\* test_queries is absent or empty.
AsksNoQuery(call) ==
    /\ Get(call.args, "run_full_suite") \in {Undefined, Bool(FALSE)}
    /\ Get(call.args, "test_queries") \in {Undefined, Arr(<<>>)}

\* C11: a search-quality-test call that asks for no query (suite not selected,
\* test_queries absent or empty) ends with an error response saying that no
\* queries were provided and issues no backend search; every other
\* search-quality-test call issues at least one.
EmptyQueryListRejected ==
    \A c \in Slots :
        LET call == calls[c]
        IN (call.tool = ValidateSearch /\ Started(call))
             => IF AsksNoQuery(call)
                THEN /\ Finished(call)
                     /\ call.resp.isError
                     /\ call.resp.structuredContent = Undefined
                     /\ call.resp.content = <<FailurePrefix(ValidateSearch),
                                              "No queries provided for search quality test">>
                     /\ call.requests = <<>>
                     /\ ~Occurs(call.events, "fetch")
                ELSE call.requests # <<>>

EmptyQueryListRejectedWitness ==
    /\ calls[1].tool = ValidateSearch
    /\ Get(calls[1].args, "test_queries") = Arr(<<>>)
    /\ Get(calls[1].args, "run_full_suite") = Undefined
    /\ Finished(calls[1])
    /\ calls[1].resp.isError
    /\ calls[1].requests = <<>>

\* The results of the i-th search of the call, as the backend gave them.
ResultSet(call, i) == Get(call.replies[i].body.value, "results").v

\* The greatest score in a result set, an entry without score counting as 0;
\* 0 for the empty set.
MaxScore(set) ==
    IF set = <<>> THEN 0
    ELSE LET scores == {IF Get(set[i], "score").t = "num" THEN Get(set[i], "score").v ELSE 0 :
                          i \in 1..Len(set)}
         IN CHOOSE m \in scores : \A n \in scores : n <= m

RECURSIVE SumOver(_, _)
SumOver(f, n) == IF n = 0 THEN 0 ELSE f[n] + SumOver(f, n - 1)

\* The indices among 1..n at which f is 0, in increasing order.
RECURSIVE ZeroesOf(_, _)
ZeroesOf(f, n) ==
    IF n = 0 THEN <<>>
    ELSE ZeroesOf(f, n - 1) \o (IF f[n] = 0 THEN <<n>> ELSE <<>>)

\* C12: in every search-quality report queries_tested is the number of queries
\* run, the top score recorded for a query is the maximum score of its result
\* set (0 for an empty set), average_top_score is the sum of the top scores
\* divided by the number of queries, and zero_result_queries lists the queries
\* whose result set was empty, in the order they were run.
ReportAggregates ==
    \A c \in Slots :
        LET call == calls[c]
            n == Len(call.replies)
            top == [i \in 1..n |-> MaxScore(ResultSet(call, i))]
            size == [i \in 1..n |-> Len(ResultSet(call, i))]
            empty == ZeroesOf(size, n)
            report == call.resp.structuredContent
        IN /\ (call.tool = ValidateSearch /\ Started(call))
                => \A i \in 1..Len(call.results) :
                       /\ call.results[i].query = call.queries[i]
                       /\ call.results[i].topScore = Num(top[i])
                       /\ call.results[i].count = size[i]
           /\ (call.tool = ValidateSearch /\ Finished(call) /\ ~call.resp.isError)
                => /\ n = Len(call.queries) /\ n = Len(call.requests) /\ n >= 1
                   /\ Get(report, "queries_tested") = Num(n)
                   /\ Get(report, "average_top_score").t = "ratio"
                   /\ Get(report, "average_top_score").den = n
                   /\ Get(report, "average_top_score").num = SumOver(top, n)
                   /\ Get(report, "zero_result_queries")
                        = Arr([k \in 1..Len(empty) |-> call.queries[empty[k]]])

\* Top scores 0.9, 0.5 and 0 (no result): the average is 1.4 / 3.
ReportAggregatesWitness ==
    /\ calls[1].tool = ValidateSearch
    /\ Get(calls[1].args, "test_queries") = Arr(<<S("x"), S("y"), S("z")>>)
    /\ Finished(calls[1])
    /\ ~calls[1].resp.isError
    /\ [i \in 1..3 |-> MaxScore(ResultSet(calls[1], i))] = <<90, 50, 0>>
    /\ Get(calls[1].resp.structuredContent, "queries_tested") = Num(3)
    /\ Get(calls[1].resp.structuredContent, "average_top_score") = Ratio(140, 3)
    /\ Get(calls[1].resp.structuredContent, "zero_result_queries") = Arr(<<S("z")>>)

Least(a, b) == IF a < b THEN a ELSE b

\* The response of a finished search call is made of the call's own input and
\* of the backend's reply to the call's own request.
BuiltFromOwn(call) ==
    LET reply == call.replies[1]
        out == call.resp.structuredContent
    IN IF call.resp.isError
       THEN /\ call.resp.content[1] = FailurePrefix(Search)
            /\ reply.kind = "rejected" =>
                   Tail(call.resp.content) = IF reply.error.instanceOfError
                                             THEN reply.error.message
                                             ELSE <<"Unknown error">>
            /\ (reply.kind = "response" /\ ~ResponseOk(reply)) =>
                   includes(call.resp.content, <<ToString(reply.status)>>)
       ELSE LET own == ResultSet(call, 1)
                shown == Get(out, "results")
            IN /\ Get(out, "query") = Get(call.input, "query")
               /\ includes(call.resp.content, Get(call.input, "query").v)
               /\ Get(out, "result_count") = Num(Len(own))
               /\ shown.t = "arr"
               /\ Len(shown.v) = Least(Len(own), Get(call.input, "top_k").v)
               /\ \A i \in 1..Len(shown.v) : \A key \in {"score", "title", "snippet"} :
                      Get(shown.v[i], key) = Get(own[i], key)

\* C13: with two search calls in flight at once, whatever the order in which
\* their replies arrive, each call sends its own project_id and query to the
\* backend, and its response reports its own query and is made only of the
\* reply to its own request.
SearchCallsAreIndependent ==
    \A c \in Slots :
        (calls[c].tool = Search /\ Started(calls[c]))
          => /\ Len(calls[c].requests) = 1
             /\ Get(calls[c].requests[1].body, "project_id") = Get(calls[c].input, "project_id")
             /\ Get(calls[c].requests[1].body, "query") = Get(calls[c].input, "query")
             /\ Finished(calls[c]) => BuiltFromOwn(calls[c])

\* Call 1 is started first and answered last: call 2 starts and finishes while
\* call 1 awaits its reply; the two differ in project, query and reply.
SearchCallsAreIndependentWitness ==
    /\ Finished(calls[1]) /\ Finished(calls[2])
    /\ ~calls[1].resp.isError /\ ~calls[2].resp.isError
    /\ calls[1].peers = <<{}, {}>>
    /\ calls[2].peers = <<{1}, {1}>>
    /\ Get(calls[1].input, "project_id") = S("proj_1") /\ Get(calls[1].input, "query") = S("x")
    /\ Get(calls[2].input, "project_id") = S("proj_2") /\ Get(calls[2].input, "query") = S("y")
    /\ Len(ResultSet(calls[1], 1)) = 1
    /\ Len(ResultSet(calls[2], 1)) = 2
    /\ Get(calls[1].resp.structuredContent, "query") = S("x")
    /\ Get(calls[2].resp.structuredContent, "query") = S("y")

\* C14: a log-session-note call that the guardrail does not reject finishes
\* within its invocation, with no backend request and nothing kept from it: its
\* response is a success whose payload holds a note identifier made of the
\* clock reading, the caller's project_id as given, and the time of generation.
NoteIsLocal ==
    \A c \in Slots :
        LET call == calls[c]
            out == call.resp.structuredContent
        IN (call.tool = LogSessionNote /\ Started(call) /\ ~RejectedByGuardrail(call))
             => /\ Finished(call)
                /\ call.requests = <<>>
                /\ call.replies = <<>>
                /\ call.queries = <<>> /\ call.results = <<>>
                /\ ~Occurs(call.events, "fetch")
                /\ ~call.resp.isError
                /\ call.resp.content[1] = "[v] Logged session note:"
                /\ Tail(call.resp.content) = Get(call.args, "summary_text").v
                /\ [i \in 1..Len(out.v) |-> out.v[i][1]] = <<"note_id", "project_id", "timestamp">>
                /\ Get(out, "project_id") = Get(call.args, "project_id")
                /\ \E t1 \in 1..MaxClock : \E t2 \in t1..MaxClock :
                       /\ Get(out, "note_id") = Str(<<"note_" \o ToString(t2)>>)
                       /\ Get(out, "timestamp") = Str(<<"T+" \o ToString(t1) \o "ms">>)

NoteIsLocalWitness ==
    /\ calls[1].tool = LogSessionNote
    /\ Finished(calls[1])
    /\ Get(calls[1].args, "job_id") = S("job_1")
    /\ ~calls[1].resp.isError
    /\ calls[1].requests = <<>>
    /\ Get(calls[1].resp.structuredContent, "note_id") = Str(<<"note_2">>)
    /\ Get(calls[1].resp.structuredContent, "timestamp") = Str(<<"T+1ms">>)
    /\ Get(calls[1].resp.structuredContent, "project_id") = S("proj_1")

\* The i-th search of the call brought no usable result set: the request
\* failed, or its body holds no results array.
SearchFailed(call, i) ==
    \/ BackendFailed(call.replies[i])
    \/ call.replies[i].body.value.t # "obj"
    \/ Get(call.replies[i].body.value, "results").t # "arr"

\* C15: within one search-quality-test call the searches run one at a time, in
\* the order of the deduplicated list: a search is issued only when every
\* earlier one has been answered; and once a search fails the call ends with an
\* error response that holds no report, no further search being issued.
QualityTestIsSequential ==
    \A c \in Slots :
        LET call == calls[c]
            issued == Len(call.requests)
            answered == Len(call.replies)
        IN (call.tool = ValidateSearch /\ Started(call))
             => /\ issued <= Len(call.queries)
                /\ \A i \in 1..issued :
                       /\ Get(call.requests[i].body, "query") = call.queries[i]
                       /\ Get(call.requests[i].body, "project_id") = Get(call.input, "project_id")
                /\ call.pc = "awaiting" => issued = answered + 1
                /\ call.pc = "done" => issued = answered
                /\ \A i \in 1..answered :
                       IF SearchFailed(call, i)
                       THEN /\ i = answered /\ i = issued
                            /\ Finished(call)
                            /\ call.resp.isError
                            /\ call.resp.structuredContent = Undefined
                            /\ call.resp.content[1] = FailurePrefix(ValidateSearch)
                       ELSE Finished(call) => (call.resp.isError \/ answered = Len(call.queries))

\* The second of three searches fails: two searches issued, no report.
QualityTestIsSequentialWitness ==
    /\ calls[1].tool = ValidateSearch
    /\ calls[1].queries = <<S("x"), S("y"), S("z")>>
    /\ Finished(calls[1])
    /\ Len(calls[1].requests) = 2
    /\ ~SearchFailed(calls[1], 1)
    /\ calls[1].replies[2] = Response(502, TextBody(<<"Bad", "Gateway">>))
    /\ calls[1].resp.isError
    /\ calls[1].resp.structuredContent = Undefined

\* C16: no tool but search-quality-test issues more than one backend request
\* in one call, no call issues a request after one of its requests has failed,
\* no call issues the same request twice, and the failure is answered with an
\* error response by the call in which it happened.
NoRetries ==
    \A c \in Slots :
        LET call == calls[c]
        IN /\ (call.tool # ValidateSearch) => Len(call.requests) <= 1
           /\ Len(call.requests) <= Len(call.replies) + 1
           /\ \A i, j \in 1..Len(call.requests) : i # j => call.requests[i] # call.requests[j]
           /\ \A i \in 1..Len(call.replies) :
                  BackendFailed(call.replies[i])
                    => /\ Len(call.requests) = i
                       /\ Len(call.replies) = i
                       /\ Finished(call)
                       /\ call.resp.isError
                       /\ call.resp.content[1] = FailurePrefix(call.tool)

NoRetriesWitness ==
    /\ calls[1].tool = CreateProject
    /\ Finished(calls[1])
    /\ calls[1].replies = <<FetchRejected(Err(<<"fetch failed">>))>>
    /\ Len(calls[1].requests) = 1
    /\ calls[1].resp.isError
    /\ calls[1].resp.content = <<FailurePrefix(CreateProject), "fetch failed">>

\* The section keys in the fixed order, each with the title of its section.
AllowListed ==
    << <<"product_overview", "PRODUCT OVERVIEW">>,
       <<"identity", "IDENTITY">>,
       <<"privacy", "PRIVACY">>,
       <<"validation_and_security", "VALIDATION AND SECURITY">>,
       <<"evaluation_standards", "EVALUATION STANDARDS">>,
       <<"promotion_policy", "PROMOTION POLICY">>,
       <<"workflow", "WORKFLOW">>,
       <<"communication_style", "COMMUNICATION STYLE">>,
       <<"available_tools", "AVAILABLE TOOLS">>,
       <<"human_in_loop", "HUMAN IN LOOP">>,
       <<"error_handling", "ERROR HANDLING">>,
       <<"session_management", "SESSION MANAGEMENT">>,
       <<"workflow_templates", "WORKFLOW TEMPLATES">> >>

\* The keys the header, the owners list and the description block are made of.
HeaderKeys == {"version", "last_updated", "owners", "description"}

\* The place of a title in the fixed order, 0 for a title that is no section's.
PlaceOf(title) ==
    IF \E i \in 1..Len(AllowListed) : AllowListed[i][2] = title
    THEN CHOOSE i \in 1..Len(AllowListed) : AllowListed[i][2] = title
    ELSE 0

HasKey(doc, key) == \E i \in 1..Len(doc.v) : doc.v[i][1] = key

\* The sections of the rendering are in the fixed order, each at most once,
\* and nothing of a top-level key outside the allow-list is rendered.
OrderedAndFiltered(doc, out) ==
    /\ \A j, k \in 1..Len(out) :
           (j < k /\ PlaceOf(out[j].title) # 0 /\ PlaceOf(out[k].title) # 0)
             => PlaceOf(out[j].title) < PlaceOf(out[k].title)
    /\ out[1].title = "CoderSwap MCP System Guardrails"
    /\ \A j \in 2..Len(out) :
           PlaceOf(out[j].title) = 0 => out[j].title \in {"Owners:", "Description:"}
    /\ \A i \in 1..Len(doc.v) :
           LET key == doc.v[i][1]
           IN (key \notin HeaderKeys /\ \A n \in 1..Len(AllowListed) : AllowListed[n][1] # key)
                => \A j \in 1..Len(out) :
                       /\ out[j].title # key
                       /\ \A l \in 1..Len(out[j].lines) : ~includes(out[j].lines[l].text, <<key>>)

\* C17: for every parsed document the rendering holds a section for exactly
\* the allow-listed keys that the document gives a value other than null, in
\* the fixed section order whatever the order of the keys in the document, and
\* holds nothing of a top-level key outside the allow-list.
RenderIsOrderedAndTotal ==
    systemPrompt # <<>>
      => /\ OrderedAndFiltered(payload, systemPrompt)
         /\ \A n \in 1..Len(AllowListed) :
                (HasKey(payload, AllowListed[n][1]) /\ ~IsNullish(Get(payload, AllowListed[n][1])))
                  <=> \E j \in 1..Len(systemPrompt) : systemPrompt[j].title = AllowListed[n][2]

\* Keys given out of order, one unknown, one with a falsy value.
RenderIsOrderedAndTotalWitness ==
    /\ payload = Obj(<< <<"workflow", Arr(<<>>)>>,
                        <<"internal_notes", Str(<<"assistant">>)>>,
                        <<"identity", Bool(FALSE)>> >>)
    /\ [j \in 1..Len(systemPrompt) |-> systemPrompt[j].title]
         = <<"CoderSwap MCP System Guardrails", "IDENTITY", "WORKFLOW">>

\* C17 (as claimed): every allow-listed key present in the document has its
\* section in the rendering, in the fixed order, and no other key is rendered.
RenderShowsEveryPresentKey ==
    systemPrompt # <<>>
      => /\ OrderedAndFiltered(payload, systemPrompt)
         /\ \A n \in 1..Len(AllowListed) :
                HasKey(payload, AllowListed[n][1])
                  => \E j \in 1..Len(systemPrompt) : systemPrompt[j].title = AllowListed[n][2]

\* C18 (as claimed): in every success response of the search tool result_count
\* is the number of entries of the structured results array, and that array
\* holds at most top_k entries, however many results the backend returns.
SearchCountMatchesResults ==
    \A c \in Slots :
        (calls[c].tool = Search /\ Finished(calls[c]) /\ calls[c].outcome = "returned"
           /\ ~calls[c].resp.isError)
          => LET out == calls[c].resp.structuredContent
             IN /\ Get(out, "results").t = "arr"
                /\ Len(Get(out, "results").v) <= Get(calls[c].input, "top_k").v
                /\ Get(out, "result_count") = Num(Len(Get(out, "results").v))

====
